---------------------------- MODULE Spec2Model ----------------------------
(***************************************************************************)
(* A model of the analytics pipeline of the multi-tenant analytics         *)
(* dashboard: CSV schema inference, field mapping, row validation, the     *)
(* upload server action, time-series aggregation, anomaly detection and    *)
(* anomaly acknowledgement, over the four stores uploaded_files,           *)
(* analytics_events, aggregated_metrics and anomaly_results.               *)
(*                                                                         *)
(* Strings that the code inspects character by character (column names)   *)
(* are sequences of one-character strings; cell literals are atomic and    *)
(* their JavaScript conversions (Number, new Date) are given per literal.  *)
(* Numbers are binary floating-point values held as rationals [n, d]: a   *)
(* zero denominator encodes Infinity / -Infinity / NaN, and every          *)
(* arithmetic result of the analytics code is rounded to the nearest       *)
(* value of MantissaBits significant bits, ties to even, as IEEE 754       *)
(* does for the 53 bits of a JavaScript number.  Exponent overflow,        *)
(* subnormals and the sign of zero are not modelled.                       *)
(***************************************************************************)
EXTENDS Integers, Sequences, FiniteSets, TLC

VARIABLES
    parsed,              \* function harness: the input handed to a pure function
    outcome,             \* function harness: what the function returned
    uploaded_files,      \* table uploaded_files, in insertion order (id = index)
    analytics_events,    \* table analytics_events, in insertion order
    aggregated_metrics,  \* table aggregated_metrics, in insertion order
    anomaly_results,     \* table anomaly_results, in insertion order (id = index)
    calls,               \* server actions in flight, suspended at an await
    lastCall,            \* the server-action step taken last: its arguments and result
    now                  \* the database clock behind NOW()

vars == <<parsed, outcome, uploaded_files, analytics_events, aggregated_metrics,
          anomaly_results, calls, lastCall, now>>

storeVars == <<uploaded_files, analytics_events, aggregated_metrics,
               anomaly_results, calls, lastCall, now>>

\* An absent cell (undefined); cells that are present are string literals.
NoValue == "undefined"

\* A nullable store field is empty (SQL NULL) or holds one value.
None == <<>>
Some(x) == <<x>>

\* An unset column name; like the empty name it is falsy in the code's tests.
NoColumn == <<>>

\* The harness result slot: empty until the function has returned.
NotReturned == <<>>

-----------------------------------------------------------------------------
(* Sequences and numbers *)

Range(s) == {s[i] : i \in DOMAIN s}

IsDistinct(s) == \A i, j \in DOMAIN s : i # j => s[i] # s[j]

RECURSIVE SeqsUpTo(_, _)
SeqsUpTo(S, n) ==
    IF n = 0 THEN {<<>>}
    ELSE LET shorter == SeqsUpTo(S, n - 1)
         IN  shorter \cup {Append(s, x) : s \in {t \in shorter : Len(t) = n - 1}, x \in S}

Abs(x) == IF x < 0 THEN -x ELSE x

RECURSIVE GCD(_, _)
GCD(a, b) == IF b = 0 THEN a ELSE GCD(b, a % b)

\* The doubles that are no rational: a zero denominator.
NaN == [n |-> 0, d |-> 0]
PosInfinity == [n |-> 1, d |-> 0]
NegInfinity == [n |-> -1, d |-> 0]

\* The rational n/d in lowest terms with a positive denominator.
Rat(n, d) ==
    LET g == GCD(Abs(n), Abs(d))
        s == IF d < 0 THEN -1 ELSE 1
    IN  [n |-> s * (n \div g), d |-> s * (d \div g)]

Num(k) == [n |-> k, d |-> 1]

IsFinite(x) == x.d # 0

\* Exact arithmetic on the rationals, before rounding.  The sums and
\* differences are only taken of finite numbers.
RAdd(x, y) == Rat(x.n * y.d + y.n * x.d, x.d * y.d)
RSub(x, y) == Rat(x.n * y.d - y.n * x.d, x.d * y.d)

Sign(k) == IF k > 0 THEN 1 ELSE IF k < 0 THEN -1 ELSE 0

RMul(x, y) ==
    IF IsFinite(x) /\ IsFinite(y) THEN Rat(x.n * y.n, x.d * y.d)
    ELSE [n |-> Sign(x.n) * Sign(y.n), d |-> 0]

\* x / y: a finite non-zero x over zero is an infinity, 0 / 0 is NaN
RDiv(x, y) ==
    IF x = NaN \/ y = NaN THEN NaN
    ELSE IF ~IsFinite(x)
         THEN (IF IsFinite(y) THEN [n |-> x.n * (IF y.n < 0 THEN -1 ELSE 1), d |-> 0]
               ELSE NaN)
    ELSE IF ~IsFinite(y) THEN Num(0)
    ELSE IF y.n = 0 THEN [n |-> Sign(x.n), d |-> 0]
    ELSE Rat(x.n * y.d, x.d * y.n)

RAbs(x) == [n |-> Abs(x.n), d |-> x.d]

\* x < y on doubles: false when either side is NaN
RLess(x, y) ==
    IF x = NaN \/ y = NaN THEN FALSE
    ELSE IF IsFinite(x) /\ IsFinite(y) THEN x.n * y.d < y.n * x.d
    ELSE IF ~IsFinite(x) /\ ~IsFinite(y) THEN x.n < y.n
    ELSE IF ~IsFinite(x) THEN x.n < 0
    ELSE y.n > 0

RGreater(x, y) == RLess(y, x)

\* x >= y on doubles: false when either side is NaN
RGeq(x, y) == x # NaN /\ y # NaN /\ ~RLess(x, y)

\* The significand width of the model's floating-point numbers.
MantissaBits == 6

RECURSIVE Pow2(_)
Pow2(k) == IF k = 0 THEN 1 ELSE 2 * Pow2(k - 1)

\* The least u with a * base^u >= lo * b, and the least w with
\* a < hi * b * base^w: the exponent shift that brings a / b into [lo, hi).
RECURSIVE ScaleUp(_, _, _, _)
ScaleUp(a, b, base, lo) == IF a >= lo * b THEN 0 ELSE 1 + ScaleUp(a * base, b, base, lo)

RECURSIVE ScaleDown(_, _, _, _)
ScaleDown(a, b, base, hi) == IF a < hi * b THEN 0 ELSE 1 + ScaleDown(a, b * base, base, hi)

\* Round to nearest, ties to even: the rounding of every double operation.
Fl(x) ==
    IF ~IsFinite(x) \/ x.n = 0 THEN x
    ELSE LET a == Abs(x.n)
             u == ScaleUp(a, x.d, 2, Pow2(MantissaBits - 1))
             w == ScaleDown(a, x.d, 2, Pow2(MantissaBits))
             A == a * Pow2(u)
             B == x.d * Pow2(w)
             m == A \div B
             r == A % B
             rounded == IF 2 * r > B \/ (2 * r = B /\ m % 2 = 1) THEN m + 1 ELSE m
         IN  Rat(Sign(x.n) * rounded * Pow2(w), Pow2(u))

FAdd(x, y) == Fl(RAdd(x, y))
FSub(x, y) == Fl(RSub(x, y))
FMul(x, y) == Fl(RMul(x, y))
FDiv(x, y) == Fl(RDiv(x, y))

\* Math.sqrt, correctly rounded: NaN below zero
FSqrt(x) ==
    IF x = NaN \/ x.n < 0 THEN NaN
    ELSE IF ~IsFinite(x) \/ x.n = 0 THEN x
    ELSE LET quarter == Pow2(2 * MantissaBits - 2)
             u == ScaleUp(x.n, x.d, 4, quarter)
             w == ScaleDown(x.n, x.d, 4, 4 * quarter)
             A == x.n * Pow2(2 * u)
             B == x.d * Pow2(2 * w)
             s == CHOOSE k \in Pow2(MantissaBits - 1)..(Pow2(MantissaBits) - 1) :
                      k * k * B <= A /\ A < (k + 1) * (k + 1) * B
             half == (4 * s * s + 4 * s + 1) * B
             rounded == IF 4 * A > half \/ (4 * A = half /\ s % 2 = 1) THEN s + 1 ELSE s
         IN  Rat(rounded * Pow2(w), Pow2(u))

-----------------------------------------------------------------------------
(* Strings the code inspects *)

LowerChar(c) ==
    CASE c = "D" -> "d"
      [] c = "T" -> "t"
      [] c = "V" -> "v"
      [] OTHER -> c

toLowerCase(s) == [i \in DOMAIN s |-> LowerChar(s[i])]

\* String.prototype.includes
StrIncludes(s, p) ==
    \E i \in 0..(Len(s) - Len(p)) : SubSeq(s, i + 1, i + Len(p)) = p

\* columns.find((c) => aliases.includes(c.toLowerCase())): the first column
\* whose lower-cased name is one of the aliases, or undefined
RECURSIVE FindAlias(_, _, _)
FindAlias(columns, i, aliases) ==
    IF i > Len(columns) THEN NoColumn
    ELSE IF toLowerCase(columns[i]) \in aliases THEN columns[i]
    ELSE FindAlias(columns, i + 1, aliases)

S_timestamp == <<"t","i","m","e","s","t","a","m","p">>
S_time == <<"t","i","m","e">>
S_date == <<"d","a","t","e">>
S_Date == <<"D","a","t","e">>
S_created == <<"c","r","e","a","t","e","d">>
S_created_at == <<"c","r","e","a","t","e","d","_","a","t">>
S_occurred == <<"o","c","c","u","r","r","e","d">>
S_event_time == <<"e","v","e","n","t","_","t","i","m","e">>
S_type == <<"t","y","p","e">>
S_Type == <<"T","y","p","e">>
S_event_type == <<"e","v","e","n","t","_","t","y","p","e">>
S_event == <<"e","v","e","n","t">>
S_action == <<"a","c","t","i","o","n">>
S_category == <<"c","a","t","e","g","o","r","y">>
S_value == <<"v","a","l","u","e">>
S_Value == <<"V","a","l","u","e">>
S_amount == <<"a","m","o","u","n","t">>
S_count == <<"c","o","u","n","t">>
S_metric == <<"m","e","t","r","i","c">>
S_metric_value == <<"m","e","t","r","i","c","_","v","a","l","u","e">>
S_score == <<"s","c","o","r","e">>
S_revenue == <<"r","e","v","e","n","u","e">>
S_total == <<"t","o","t","a","l">>
S_user_id == <<"u","s","e","r","_","i","d">>
S_region == <<"r","e","g","i","o","n">>
S_default_event == <<"d","e","f","a","u","l","t","_","e","v","e","n","t">>
S_unknown == <<"u","n","k","n","o","w","n">>

-----------------------------------------------------------------------------
(* Cell literals and their JavaScript conversions *)

CellLiterals == {"", "abc", "signup", "42", "7", "1.5", "2024-01-15", "2024-01-16", "true"}

\* Number(str): the numeric value of a literal, NaN when it has none.
\* Number("") is 0.
NumberOf(v) ==
    CASE v = "" -> Num(0)
      [] v = "42" -> Num(42)
      [] v = "7" -> Num(7)
      [] v = "1.5" -> Rat(3, 2)
      [] OTHER -> NaN

isNaN(x) == x = NaN

HasDecimalPoint(v) == v = "1.5"

\* One of the three date patterns of inferDataType matches the literal.
MatchesDatePattern(v) == v \in {"2024-01-15", "2024-01-16"}

\* new Date(str).getTime(), in hours since 2024-01-01T00:00Z, NaN for a
\* literal that is no date.  V8's lenient parser also reads the bare numbers
\* "42" (2042-01-01), "7" (2001-07-01) and "1.5" (2001-01-05) as dates.
DateOf(v) ==
    CASE v = "2024-01-15" -> Num(14 * 24)
      [] v = "2024-01-16" -> Num(15 * 24)
      [] v = "42" -> Num(6575 * 24)
      [] v = "7" -> Num(-8219 * 24)
      [] v = "1.5" -> Num(-8396 * 24)
      [] OTHER -> NaN

IsBooleanLiteral(v) == v = "true"

-----------------------------------------------------------------------------
(* Schema inference: src/lib/csv/parser.ts *)

inferDataType(value) ==
    IF value \in {NoValue, ""} THEN "string"
    ELSE IF ~isNaN(NumberOf(value)) /\ value # ""
         THEN (IF HasDecimalPoint(value) THEN "number" ELSE "integer")
    ELSE IF MatchesDatePattern(value) /\ ~isNaN(DateOf(value)) THEN "timestamp"
    ELSE IF IsBooleanLiteral(value) THEN "boolean"
    ELSE "string"

SampleLimit == 100

Min(a, b) == IF a < b THEN a ELSE b

\* data[i]?.[column]
CellAt(data, i, column) ==
    IF i \in DOMAIN data /\ column \in DOMAIN data[i] THEN data[i][column] ELSE NoValue

\* The Map of type -> count after the sampling loop (lines 48-52): one key
\* per type met in the sample, in the order in which the types were first
\* met, each with the number of sampled cells of that type.
TypeCounts(data, column, sampleSize) ==
    LET typeAt == [i \in 1..sampleSize |-> inferDataType(CellAt(data, i, column))]
        firsts == {i \in 1..sampleSize : \A j \in 1..(i - 1) : typeAt[j] # typeAt[i]}
    IN  [k \in 1..Cardinality(firsts) |->
            LET first == CHOOSE i \in firsts :
                            Cardinality({j \in firsts : j <= i}) = k
            IN  [type |-> typeAt[first],
                 count |-> Cardinality({i \in 1..sampleSize :
                                          typeAt[i] = typeAt[first]})]]

RECURSIVE DominantType(_, _, _, _)
DominantType(types, k, dominantType, maxCount) ==
    IF k > Len(types) THEN dominantType
    ELSE IF types[k].count > maxCount
         THEN DominantType(types, k + 1, types[k].type, types[k].count)
    ELSE DominantType(types, k + 1, dominantType, maxCount)

\* A schema inference that samples every row.
inferSchemaAllRows(data, columns) ==
    [column \in Range(columns) |->
        DominantType(TypeCounts(data, column, Len(data)), 1, "string", 0)]

inferSchema(data, columns) ==
    LET sampleSize == Min(SampleLimit, Len(data))
    IN  [column \in Range(columns) |->
            DominantType(TypeCounts(data, column, sampleSize), 1, "string", 0)]

\* parseCSVFile after Papa.parse: rejects an empty file, else infers the schema.
parseCSVFile(columns, data) ==
    IF Len(columns) = 0 \/ Len(data) = 0 THEN [rejected |-> TRUE]
    ELSE [rejected |-> FALSE, data |-> data, columns |-> columns,
          schema |-> inferSchema(data, columns), rowCount |-> Len(data)]

-----------------------------------------------------------------------------
(* Field mapping: src/lib/csv/parser.ts *)

timestampPatterns == {S_timestamp, S_time, S_date, S_created, S_occurred, S_event_time}
typePatterns == {S_type, S_event_type, S_event, S_action, S_category}
valuePatterns == {S_value, S_amount, S_count, S_metric, S_score, S_revenue, S_total}

DefaultEventType == S_default_event

SchemaType(schema, column) ==
    IF column \in DOMAIN schema THEN schema[column] ELSE NoValue

\* The for-loop over the columns: each column goes to the first role it
\* matches that is still unset, else to dimensionColumns.
RECURSIVE MappingLoop(_, _, _, _)
MappingLoop(columns, schema, i, mapping) ==
    IF i > Len(columns) THEN mapping
    ELSE LET column == columns[i]
             lowerColumn == toLowerCase(column)
             type == SchemaType(schema, column)
         IN  IF /\ mapping.timestampColumn = NoColumn
                /\ type = "timestamp"
                /\ \E p \in timestampPatterns : StrIncludes(lowerColumn, p)
             THEN MappingLoop(columns, schema, i + 1,
                              [mapping EXCEPT !.timestampColumn = column])
             ELSE IF /\ mapping.eventTypeColumn = NoColumn
                     /\ type = "string"
                     /\ \E p \in typePatterns : StrIncludes(lowerColumn, p)
             THEN MappingLoop(columns, schema, i + 1,
                              [mapping EXCEPT !.eventTypeColumn = column])
             ELSE IF /\ mapping.metricValueColumn = NoColumn
                     /\ type \in {"number", "integer"}
                     /\ \E p \in valuePatterns : StrIncludes(lowerColumn, p)
             THEN MappingLoop(columns, schema, i + 1,
                              [mapping EXCEPT !.metricValueColumn = column])
             ELSE MappingLoop(columns, schema, i + 1,
                              [mapping EXCEPT !.dimensionColumns = Append(@, column)])

\* A fallback that takes the last timestamp-typed column.
TimestampFallbackLast(columns, schema, mapping) ==
    IF mapping.timestampColumn # NoColumn THEN mapping
    ELSE LET timestampCols == SelectSeq(columns, LAMBDA c : SchemaType(schema, c) = "timestamp")
         IN  IF Len(timestampCols) > 0
             THEN [mapping EXCEPT
                      !.timestampColumn = timestampCols[Len(timestampCols)],
                      !.dimensionColumns =
                          SelectSeq(@, LAMBDA c : c # timestampCols[Len(timestampCols)])]
             ELSE mapping

\* The timestamp fallback after the loop.
TimestampFallback(columns, schema, mapping) ==
    IF mapping.timestampColumn # NoColumn THEN mapping
    ELSE LET timestampCols == SelectSeq(columns, LAMBDA c : SchemaType(schema, c) = "timestamp")
         IN  IF Len(timestampCols) > 0
             THEN [mapping EXCEPT
                      !.timestampColumn = timestampCols[1],
                      !.dimensionColumns = SelectSeq(@, LAMBDA c : c # timestampCols[1])]
             ELSE mapping

\* The event-type default after the loop.
EventTypeDefault(mapping) ==
    IF mapping.eventTypeColumn = NoColumn
    THEN [mapping EXCEPT !.eventTypeColumn = DefaultEventType]
    ELSE mapping

detectEventMapping(columns, schema) ==
    EventTypeDefault(
        TimestampFallback(columns, schema,
            MappingLoop(columns, schema, 1,
                [timestampColumn |-> NoColumn, eventTypeColumn |-> NoColumn,
                 metricValueColumn |-> NoColumn, dimensionColumns |-> <<>>])))

-----------------------------------------------------------------------------
(* Row validation: src/lib/csv/parser.ts *)

IsString(v) == v # NoValue

\* csvRowSchema.timestamp: a string that new Date() can read
TimestampPasses(v) == IsString(v) /\ ~isNaN(DateOf(v))

\* csvRowSchema.event_type: a string of at least one character
EventTypePasses(v) == IsString(v) /\ v # ""

\* csvRowSchema.value: a string for which Number() is not NaN
ValuePasses(v) == IsString(v) /\ ~isNaN(NumberOf(v))

\* A csvRowSchema variant that forgets the value refinement.
csvRowSchemaNoValueCheck(normalizedRow) ==
    (IF TimestampPasses(normalizedRow.timestamp) THEN <<>> ELSE <<"timestamp">>)
    \o (IF EventTypePasses(normalizedRow.event_type) THEN <<>> ELSE <<"event_type">>)

\* csvRowSchema.safeParse(normalizedRow): the paths of the issues, in the
\* order of the schema's keys; success iff there is none.
csvRowSchema(normalizedRow) ==
    (IF TimestampPasses(normalizedRow.timestamp) THEN <<>> ELSE <<"timestamp">>)
    \o (IF EventTypePasses(normalizedRow.event_type) THEN <<>> ELSE <<"event_type">>)
    \o (IF ValuePasses(normalizedRow.value) THEN <<>> ELSE <<"value">>)

\* result.data of a successful safeParse: the value coerced with Number()
ValidatedPayload(normalizedRow) ==
    [timestamp |-> normalizedRow.timestamp,
     event_type |-> normalizedRow.event_type,
     value |-> NumberOf(normalizedRow.value)]

timestampAliases == {S_timestamp, S_time, S_date, S_created_at, S_event_time}
eventTypeAliases == {S_event_type, S_type, S_event, S_action}
valueAliases == {S_value, S_amount, S_count, S_metric, S_metric_value}

\* A required-column check that forgets the value role.
MissingColumnsNoValue(timestampCol, eventTypeCol, valueCol) ==
    (IF timestampCol = NoColumn THEN <<"timestamp">> ELSE <<>>)
    \o (IF eventTypeCol = NoColumn THEN <<"event_type">> ELSE <<>>)

MissingColumns(timestampCol, eventTypeCol, valueCol) ==
    (IF timestampCol = NoColumn THEN <<"timestamp">> ELSE <<>>)
    \o (IF eventTypeCol = NoColumn THEN <<"event_type">> ELSE <<>>)
    \o (IF valueCol = NoColumn THEN <<"value">> ELSE <<>>)

ErrorCap == 10

\* The loop over the rows: validRows and errors after rows i..Len(data).
RECURSIVE ValidateRows(_, _, _, _, _, _)
ValidateRows(data, i, timestampCol, eventTypeCol, valueCol, acc) ==
    IF i > Len(data) THEN acc
    ELSE LET row == data[i]
             rowNumber == i + 1   \* i + 2 for the code's 0-based i
             normalizedRow == [timestamp |-> CellAt(data, i, timestampCol),
                               event_type |-> CellAt(data, i, eventTypeCol),
                               value |-> CellAt(data, i, valueCol)]
             issues == csvRowSchema(normalizedRow)
         IN  ValidateRows(data, i + 1, timestampCol, eventTypeCol, valueCol,
                 IF issues = <<>>
                 THEN [acc EXCEPT !.validRows = Append(@,
                          [row |-> row,
                           _validated |-> ValidatedPayload(normalizedRow),
                           _timestampCol |-> timestampCol,
                           _eventTypeCol |-> eventTypeCol,
                           _valueCol |-> valueCol])]
                 ELSE [acc EXCEPT !.errors = @ \o
                          [k \in DOMAIN issues |->
                              [row |-> rowNumber, field |-> issues[k],
                               message |-> "invalid"]]])

\* A display list that is cut to the cap without a summary entry.
DisplayErrorsCutOnly(errors) ==
    SubSeq(errors, 1, Min(ErrorCap, Len(errors)))

\* errors.slice(0, 10), plus the summary entry when more exist
DisplayErrors(errors) ==
    IF Len(errors) > ErrorCap
    THEN Append(SubSeq(errors, 1, ErrorCap),
                [row |-> 0, field |-> "summary", message |-> Len(errors) - ErrorCap])
    ELSE errors

validateCSVData(data, columns) ==
    LET timestampCol == FindAlias(columns, 1, timestampAliases)
        eventTypeCol == FindAlias(columns, 1, eventTypeAliases)
        valueCol == FindAlias(columns, 1, valueAliases)
        missingColumns == MissingColumns(timestampCol, eventTypeCol, valueCol)
    IN  IF Len(missingColumns) > 0
        THEN [valid |-> FALSE,
              validRows |-> <<>>,
              errors |-> <<[row |-> 0, field |-> "schema", message |-> missingColumns]>>,
              summary |-> [totalRows |-> Len(data), validRowCount |-> 0,
                           invalidRowCount |-> Len(data)]]
        ELSE LET acc == ValidateRows(data, 1, timestampCol, eventTypeCol, valueCol,
                                     [validRows |-> <<>>, errors |-> <<>>])
             IN  [valid |-> Len(acc.errors) = 0,
                  validRows |-> acc.validRows,
                  errors |-> DisplayErrors(acc.errors),
                  summary |-> [totalRows |-> Len(data),
                               validRowCount |-> Len(acc.validRows),
                               invalidRowCount |-> Len(data) - Len(acc.validRows)]]

-----------------------------------------------------------------------------
(* The stores at rest, for the specifications that exercise one function *)

NoCall == [op |-> "none"]

StoresIdle ==
    /\ uploaded_files = <<>>
    /\ analytics_events = <<>>
    /\ aggregated_metrics = <<>>
    /\ anomaly_results = <<>>
    /\ calls = {}
    /\ lastCall = NoCall
    /\ now = 0

-----------------------------------------------------------------------------
(* SpecValidate: validateCSVData applied to a parsed file *)

MaxRows == 2

ValidateCells == {"", "abc", "2024-01-15"}

ValidateHeaders ==
    { <<S_timestamp, S_event_type, S_value>>,
      <<S_Date, S_Type, S_amount>>,
      <<S_value, S_event, S_time>>,
      <<S_created, S_category, S_score>>,
      <<S_timestamp, S_event_type>>,
      <<S_Value, S_user_id>> }

InitValidate ==
    /\ \E h \in ValidateHeaders :
         \E d \in SeqsUpTo([Range(h) -> ValidateCells], MaxRows) :
            parsed = [columns |-> h, data |-> d]
    /\ outcome = NotReturned
    /\ StoresIdle

Validate ==
    /\ outcome = NotReturned
    /\ outcome' = <<validateCSVData(parsed.data, parsed.columns)>>
    /\ UNCHANGED <<parsed, storeVars>>

NextValidate == Validate

SpecValidate == InitValidate /\ [][NextValidate]_vars

\* No column name is an alias of the role (compared in lower case).
RoleAbsent(columns, aliases) ==
    \A c \in Range(columns) : toLowerCase(c) \notin aliases

AbsentRoles(columns) ==
    (IF RoleAbsent(columns, timestampAliases) THEN <<"timestamp">> ELSE <<>>)
    \o (IF RoleAbsent(columns, eventTypeAliases) THEN <<"event_type">> ELSE <<>>)
    \o (IF RoleAbsent(columns, valueAliases) THEN <<"value">> ELSE <<>>)

\* C3: when a required role has no column, validateCSVData returns
\* valid = false, no valid rows, exactly one error (row 0, field 'schema')
\* that names the missing roles, validRowCount = 0 and invalidRowCount =
\* totalRows, for any number of rows.
C3_SchemaAllOrNothing ==
    (outcome # NotReturned /\ AbsentRoles(parsed.columns) # <<>>) =>
        /\ outcome[1].valid = FALSE
        /\ outcome[1].validRows = <<>>
        /\ Len(outcome[1].errors) = 1
        /\ outcome[1].errors[1].row = 0
        /\ outcome[1].errors[1].field = "schema"
        /\ outcome[1].errors[1].message = AbsentRoles(parsed.columns)
        /\ outcome[1].summary.totalRows = Len(parsed.data)
        /\ outcome[1].summary.validRowCount = 0
        /\ outcome[1].summary.invalidRowCount = Len(parsed.data)

C3_Witness ==
    /\ outcome # NotReturned
    /\ AbsentRoles(parsed.columns) = <<"value">>
    /\ Len(parsed.data) = MaxRows

\* The row passes all three field checks, read from the first alias column
\* of each role.
RowPasses(row, columns) ==
    LET cell(aliases) ==
            LET c == FindAlias(columns, 1, aliases)
            IN  IF c \in DOMAIN row THEN row[c] ELSE NoValue
    IN  /\ TimestampPasses(cell(timestampAliases))
        /\ EventTypePasses(cell(eventTypeAliases))
        /\ ValuePasses(cell(valueAliases))

\* C4: with all three role columns present, validRows holds exactly the rows
\* whose three fields all pass, in input order; valid iff no row failed;
\* validRowCount = Len(validRows) and validRowCount + invalidRowCount =
\* totalRows.
C4_ValidRowsExact ==
    (outcome # NotReturned /\ AbsentRoles(parsed.columns) = <<>>) =>
        /\ [k \in DOMAIN outcome[1].validRows |-> outcome[1].validRows[k].row]
             = SelectSeq(parsed.data, LAMBDA r : RowPasses(r, parsed.columns))
        /\ outcome[1].valid = (\A i \in DOMAIN parsed.data :
                               RowPasses(parsed.data[i], parsed.columns))
        /\ outcome[1].summary.validRowCount = Len(outcome[1].validRows)
        /\ outcome[1].summary.validRowCount + outcome[1].summary.invalidRowCount
             = outcome[1].summary.totalRows
        /\ outcome[1].summary.totalRows = Len(parsed.data)

C4_Witness ==
    /\ outcome # NotReturned
    /\ AbsentRoles(parsed.columns) = <<>>
    /\ Len(parsed.data) = MaxRows
    /\ Len(outcome[1].validRows) = 1
    /\ ~RowPasses(parsed.data[1], parsed.columns)
    /\ outcome[1].valid = FALSE

-----------------------------------------------------------------------------
(* SpecErrors: validateCSVData applied to files with many failing rows *)

MaxErrorRows == 4

\* A row of a file with the three canonical columns.
Row3(ts, et, v) == (S_timestamp :> ts) @@ (S_event_type :> et) @@ (S_value :> v)

\* Rows with no, one, two and three failing fields.
ErrorRows ==
    {Row3("2024-01-15", "signup", "42"), Row3("abc", "signup", "42"),
     Row3("2024-01-15", "", "abc"), Row3("abc", "", "abc")}

InitErrors ==
    /\ \E d \in SeqsUpTo(ErrorRows, MaxErrorRows) :
          parsed = [columns |-> <<S_timestamp, S_event_type, S_value>>, data |-> d]
    /\ outcome = NotReturned
    /\ StoresIdle

NextErrors == Validate

SpecErrors == InitErrors /\ [][NextErrors]_vars

\* Every field error of the file, row by row: what the loop of
\* validateCSVData has collected when it ends.
FieldErrors(data, columns) ==
    ValidateRows(data, 1, FindAlias(columns, 1, timestampAliases),
                 FindAlias(columns, 1, eventTypeAliases),
                 FindAlias(columns, 1, valueAliases),
                 [validRows |-> <<>>, errors |-> <<>>]).errors

\* C18: the errors list of the result holds the first min(10, n) of the n
\* field errors in row order; when n > 10 it ends with one more entry,
\* (row 0, field 'summary'), that reports n - 10 remaining errors, and has
\* no other entry; it never has more than 11 entries.
C18_ErrorListCapped ==
    (outcome # NotReturned /\ AbsentRoles(parsed.columns) = <<>>) =>
        LET all == FieldErrors(parsed.data, parsed.columns)
            n == Len(all)
            shown == outcome[1].errors
        IN  /\ Len(shown) = IF n > 10 THEN 11 ELSE n
            /\ \A k \in 1..Min(10, n) : shown[k] = all[k]
            /\ n > 10 => shown[11] = [row |-> 0, field |-> "summary",
                                      message |-> n - 10]
            /\ Len(shown) <= 11

\* A file with twelve field errors has been validated: ten are listed and
\* the summary entry reports two more.
C18_Witness ==
    /\ outcome # NotReturned
    /\ Len(FieldErrors(parsed.data, parsed.columns)) = 12
    /\ Len(outcome[1].errors) = 11
    /\ outcome[1].errors[11].field = "summary"
    /\ outcome[1].errors[11].message = 2

-----------------------------------------------------------------------------
(* SpecMapping: detectEventMapping applied to a column list and a schema *)

MaxColumns == 3

SchemaTypes == {"string", "integer", "number", "timestamp", "boolean"}

MappingNames == {S_timestamp, S_Date, S_Type, S_amount, S_user_id, S_default_event}

InitMapping ==
    /\ \E h \in {c \in SeqsUpTo(MappingNames, MaxColumns) : IsDistinct(c)} :
         \E sch \in [Range(h) -> SchemaTypes] :
            parsed = [columns |-> h, schema |-> sch]
    /\ outcome = NotReturned
    /\ StoresIdle

Map ==
    /\ outcome = NotReturned
    /\ outcome' = <<detectEventMapping(parsed.columns, parsed.schema)>>
    /\ UNCHANGED <<parsed, storeVars>>

NextMapping == Map

SpecMapping == InitMapping /\ [][NextMapping]_vars

\* The role columns a mapping sets.
RoleColumns(mapping) ==
    << mapping.timestampColumn, mapping.eventTypeColumn, mapping.metricValueColumn >>

\* C5: detectEventMapping never gives one column two roles (the three role
\* columns and dimensionColumns are pairwise disjoint), and dimensionColumns
\* plus the role columns that are real columns are the whole column set.
C5_RolesDisjointAndCover ==
    outcome # NotReturned =>
        LET roles == RoleColumns(outcome[1])
            dims == outcome[1].dimensionColumns
        IN  /\ \A i, j \in 1..3 :
                  (i # j /\ roles[i] # NoColumn) => roles[i] # roles[j]
            /\ \A i \in 1..3 : roles[i] \notin Range(dims)
            /\ IsDistinct(dims)
            /\ Range(dims) \cup (Range(roles) \cap Range(parsed.columns))
                 = Range(parsed.columns)

\* The positions of the columns whose schema type is timestamp.
TimestampTyped(columns, schema) ==
    {i \in DOMAIN columns : SchemaType(schema, columns[i]) = "timestamp"}

\* The lower-cased name of the column contains a timestamp pattern.
TimestampNamed(column) ==
    \E p \in timestampPatterns : StrIncludes(toLowerCase(column), p)

\* C26: detectEventMapping leaves timestampColumn unset iff no column is
\* typed timestamp; when columns are typed timestamp and none of them has a
\* timestamp name, timestampColumn is the first of them in column order and
\* is not among dimensionColumns.
C26_TimestampFallback ==
    outcome # NotReturned =>
        \A typed \in {TimestampTyped(parsed.columns, parsed.schema)} :
            /\ (outcome[1].timestampColumn = NoColumn) <=> (typed = {})
            /\ (typed # {} /\ \A i \in typed : ~TimestampNamed(parsed.columns[i]))
                  => /\ outcome[1].timestampColumn
                           = parsed.columns[CHOOSE i \in typed : \A j \in typed : i <= j]
                     /\ outcome[1].timestampColumn
                           \notin Range(outcome[1].dimensionColumns)

\* The mapping of a file with two timestamp-typed columns, neither with a
\* timestamp name, has been computed: the role went to the first of them.
C26_Witness ==
    /\ outcome # NotReturned
    /\ Cardinality(TimestampTyped(parsed.columns, parsed.schema)) = 2
    /\ \A i \in TimestampTyped(parsed.columns, parsed.schema) :
          ~TimestampNamed(parsed.columns[i])
    /\ \E i \in TimestampTyped(parsed.columns, parsed.schema) :
          /\ outcome[1].timestampColumn = parsed.columns[i]
          /\ \E j \in TimestampTyped(parsed.columns, parsed.schema) :
                /\ i < j
                /\ parsed.columns[j] \in Range(outcome[1].dimensionColumns)

-----------------------------------------------------------------------------
(* SpecSchema: inferSchema applied to short files and to files longer than *)
(* the sample                                                              *)

MaxSample == 3
MaxTail == 1

SchemaCells == {"", "abc", "42", "1.5", "2024-01-15", "true"}

\* The rows have the column value only; the column user_id is listed in the
\* header and absent from every row.
SchemaColumns == <<S_value, S_user_id>>

ValueRows(cells) == [i \in DOMAIN cells |-> (S_value :> cells[i])]

\* A file whose first SampleLimit rows alternate between two cells, with
\* further rows after them.
LongFile(a, b, tail) ==
    ValueRows([i \in 1..SampleLimit |-> IF i % 2 = 1 THEN a ELSE b] \o tail)

InitSchema ==
    /\ \/ \E cells \in SeqsUpTo(SchemaCells, MaxSample) :
             parsed = [columns |-> SchemaColumns, data |-> ValueRows(cells)]
       \/ \E a \in SchemaCells, b \in SchemaCells,
             tail \in SeqsUpTo(SchemaCells, MaxTail) :
             parsed = [columns |-> SchemaColumns, data |-> LongFile(a, b, tail)]
    /\ outcome = NotReturned
    /\ StoresIdle

InferSchema ==
    /\ outcome = NotReturned
    /\ outcome' = <<inferSchema(parsed.data, parsed.columns)>>
    /\ UNCHANGED <<parsed, storeVars>>

NextSchema == InferSchema

SpecSchema == InitSchema /\ [][NextSchema]_vars

\* The rows of the sample whose cell of the column has the type.
SampleRowsOf(data, column, type) ==
    {i \in 1..Min(100, Len(data)) : inferDataType(CellAt(data, i, column)) = type}

\* C24: for each listed column the schema holds one of the five types: the
\* type with the most cells among the first min(100, rowCount) rows, and
\* among the types with that count the one that occurs first; 'string' when
\* there is no row. Rows after the first 100 have no part in it.
C24_DominantTypeOfSample ==
    outcome # NotReturned =>
        /\ DOMAIN outcome[1] = Range(parsed.columns)
        /\ \A column \in Range(parsed.columns) :
              \A type \in {outcome[1][column]} :
                 /\ type \in SchemaTypes
                 /\ Len(parsed.data) = 0 => type = "string"
                 /\ Len(parsed.data) > 0 =>
                       \A mine \in {SampleRowsOf(parsed.data, column, type)} :
                          /\ mine # {}
                          /\ \A other \in SchemaTypes \ {type} :
                                \A theirs \in {SampleRowsOf(parsed.data, column, other)} :
                                   \/ Cardinality(theirs) < Cardinality(mine)
                                   \/ /\ Cardinality(theirs) = Cardinality(mine)
                                      /\ \A i \in theirs : \E j \in mine : j < i

\* A file of 101 rows has been sampled: two types tie in the first 100 rows,
\* row 101 has the type seen second, and the schema holds the type seen
\* first.
C24_Witness ==
    /\ outcome # NotReturned
    /\ Len(parsed.data) = 101
    /\ inferDataType(parsed.data[1][S_value]) # inferDataType(parsed.data[2][S_value])
    /\ inferDataType(parsed.data[101][S_value]) = inferDataType(parsed.data[2][S_value])
    /\ outcome[1][S_value] = inferDataType(parsed.data[1][S_value])
    /\ outcome[1][S_user_id] = "string"

-----------------------------------------------------------------------------
(* Tenants, users and roles: src/unnamed/part_001, table tenant_members *)

Tenants == {"t1", "t2"}

\* The signed-in users; NoSession is a request without a Clerk session.
Users == {"alice", "bob", "carol"}
NoSession == "anonymous"

\* tenant_members: alice owns t1 and has no membership in t2, bob is an
\* admin of t2 only, carol is a plain member of t1 and an admin of t2.
TenantMembers ==
    { [tenant_id |-> "t1", user_id |-> "alice", role |-> "OWNER"],
      [tenant_id |-> "t2", user_id |-> "bob", role |-> "ADMIN"],
      [tenant_id |-> "t1", user_id |-> "carol", role |-> "MEMBER"],
      [tenant_id |-> "t2", user_id |-> "carol", role |-> "ADMIN"] }

ROLE_PERMISSIONS(role) ==
    CASE role = "OWNER" -> {"view_analytics", "upload_files", "delete_files",
                            "manage_members", "manage_tenant", "acknowledge_anomalies"}
      [] role = "ADMIN" -> {"view_analytics", "upload_files", "delete_files",
                            "acknowledge_anomalies"}
      [] role = "MEMBER" -> {"view_analytics"}
      [] OTHER -> {}

hasPermission(role, permission) == permission \in ROLE_PERMISSIONS(role)

\* A gate that lets every member upload.
canUploadFilesAnyRole(role) == TRUE

canUploadFiles(role) == hasPermission(role, "upload_files")

canAcknowledgeAnomalies(role) == hasPermission(role, "acknowledge_anomalies")

\* getTenantAuthContext: <<>> (null) without a session or a membership,
\* else the one context of the user in the tenant.
getTenantAuthContext(user, tenantId) ==
    IF user = NoSession THEN <<>>
    ELSE LET membership == {m \in TenantMembers :
                               m.tenant_id = tenantId /\ m.user_id = user}
         IN  IF membership = {} THEN <<>>
             ELSE LET m == CHOOSE x \in membership : TRUE
                  IN  <<[userId |-> user, tenantId |-> tenantId, role |-> m.role]>>

-----------------------------------------------------------------------------
(* The upload server action: src/actions/upload.ts, src/lib/db/queries.ts *)

MAX_FILE_SIZE == 10485760

\* String(row[column] || 'unknown') with the event-type column of the mapping
EventTypeOf(row, mapping) ==
    IF mapping.eventTypeColumn # NoColumn
    THEN LET v == IF mapping.eventTypeColumn \in DOMAIN row
                  THEN row[mapping.eventTypeColumn] ELSE NoValue
         IN  IF v \in {NoValue, ""} THEN "unknown" ELSE v
    ELSE "unknown"

\* new Date(): the wall clock, in hours since 2024-01-01T00:00Z
WallClock(t) == Num(366 * 24 + t)

\* normalizeValue(value, 'timestamp'): null for an empty cell, the current
\* time for a cell that is no date
NormalizeTimestamp(value, t) ==
    IF value \in {NoValue, ""} THEN None
    ELSE IF isNaN(DateOf(value)) THEN Some(WallClock(t))
    ELSE Some(DateOf(value))

\* normalizeValue(value, type) for the metric column
NormalizeMetric(value, type) ==
    IF value \in {NoValue, ""} THEN None
    ELSE IF type \in {"number", "integer"}
         THEN (IF isNaN(NumberOf(value)) THEN None ELSE Some(NumberOf(value)))
    ELSE None

\* The event built from one row (lines 79-108).
BuildEvent(tenantId, fileId, row, mapping, schema, t) ==
    [tenant_id |-> tenantId,
     file_id |-> fileId,
     event_type |-> EventTypeOf(row, mapping),
     event_timestamp |->
        IF mapping.timestampColumn # NoColumn
        THEN NormalizeTimestamp(
                 IF mapping.timestampColumn \in DOMAIN row
                 THEN row[mapping.timestampColumn] ELSE NoValue, t)
        ELSE Some(WallClock(t)),
     metric_value |->
        IF mapping.metricValueColumn # NoColumn
        THEN NormalizeMetric(row[mapping.metricValueColumn],
                             SchemaType(schema, mapping.metricValueColumn))
        ELSE None,
     dimensions |->
        [c \in {d \in Range(mapping.dimensionColumns) :
                   /\ d # mapping.timestampColumn
                   /\ d # mapping.eventTypeColumn
                   /\ d # mapping.metricValueColumn} |-> row[c]],
     raw_data |-> row]

BuildEvents(tenantId, fileId, file, mapping, t) ==
    [i \in DOMAIN file.data |->
        BuildEvent(tenantId, fileId, file.data[i], mapping, file.schema, t)]

\* normalizeValue(value, type), called at the time t.  The literals of the
\* model are in lower case, so the boolean branch compares them as they are.
normalizeValue(value, type, t) ==
    IF value \in {NoValue, ""} THEN None
    ELSE CASE type \in {"number", "integer"} -> NormalizeMetric(value, type)
           [] type = "timestamp" -> NormalizeTimestamp(value, t)
           [] type = "boolean" -> Some(value \in {"true", "1", "yes"})
           [] OTHER -> Some(value)

MaxClock == 1

InitNormalize ==
    /\ \E value \in CellLiterals \cup {NoValue}, type \in SchemaTypes :
          parsed = [value |-> value, type |-> type]
    /\ outcome = NotReturned
    /\ uploaded_files = <<>>
    /\ analytics_events = <<>>
    /\ aggregated_metrics = <<>>
    /\ anomaly_results = <<>>
    /\ calls = {}
    /\ lastCall = NoCall
    /\ now \in 0..MaxClock

Normalize ==
    /\ outcome = NotReturned
    /\ outcome' = <<normalizeValue(parsed.value, parsed.type, now)>>
    /\ UNCHANGED <<parsed, storeVars>>

NextNormalize == Normalize

SpecNormalize == InitNormalize /\ [][NextNormalize]_vars

\* The value is empty, or is no number where a number is asked for, or is
\* no date where a timestamp is asked for.
Malformed(value, type) ==
    \/ value \in {NoValue, ""}
    \/ type \in {"number", "integer"} /\ isNaN(NumberOf(value))
    \/ type = "timestamp" /\ isNaN(DateOf(value))

\* C21: normalizeValue returns null for every malformed input, whatever the
\* time of the call.
C21_MalformedIsNull ==
    (outcome # NotReturned /\ Malformed(parsed.value, parsed.type))
        => outcome[1] = None

\* The loop and the timestamp fallback left the event-type role unset, so
\* detectEventMapping sets it to the literal 'default_event'.
SentinelSet(columns, schema) ==
    TimestampFallback(columns, schema,
        MappingLoop(columns, schema, 1,
            [timestampColumn |-> NoColumn, eventTypeColumn |-> NoColumn,
             metricValueColumn |-> NoColumn, dimensionColumns |-> <<>>])
        ).eventTypeColumn = NoColumn

SentinelCells == {"", "42", "7"}

\* C17: when detectEventMapping has set the literal for want of an
\* event-type column, the event type that ingestion gives a row of the file
\* is the same for every row, whatever the cells of the row hold.
C17_SentinelIsNeverLookedUp ==
    (outcome # NotReturned /\ SentinelSet(parsed.columns, parsed.schema)) =>
        \A row1, row2 \in [Range(parsed.columns) -> SentinelCells] :
            EventTypeOf(row1, outcome[1]) = EventTypeOf(row2, outcome[1])

\* A gate that also admits a file of which only some rows are valid.
ValidationGatePartial(validationResult) ==
    validationResult.valid \/ Len(validationResult.validRows) > 0

\* if (!validationResult.valid) return {success: false, ...}
ValidationGate(validationResult) == validationResult.valid

\* What the action returns before it writes anything, <<>> when it goes on:
\* the checks of lines 19-65 in order.
UploadRefusal(user, tenantId, file) ==
    LET tenantAuth == getTenantAuthContext(user, tenantId)
    IN  IF tenantAuth = <<>> THEN <<"Unauthorized or not a member of this tenant">>
        ELSE IF ~canUploadFiles(tenantAuth[1].role)
             THEN <<"You do not have permission to upload files">>
        ELSE IF file.size > MAX_FILE_SIZE THEN <<"File size exceeds maximum limit">>
        ELSE IF ~file.csvName THEN <<"Only CSV files are supported">>
        ELSE IF parseCSVFile(file.columns, file.data).rejected
             THEN <<"CSV file is empty or has no valid columns">>
        ELSE IF ~ValidationGate(validateCSVData(file.data, file.columns))
             THEN <<"CSV Validation Failed">>
        ELSE <<>>

\* A row of uploaded_files as createUploadedFile inserts it.
NewFileRecord(tenantId, userId, file) ==
    [tenant_id |-> tenantId, uploaded_by |-> userId, filename |-> file.name,
     file_size_bytes |-> file.size, columns |-> file.columns,
     row_count |-> 0, schema_inferred |-> None,
     upload_status |-> "processing", error_message |-> None]

\* uploadCSVAction up to and including createUploadedFile: either it returns
\* a failure and writes nothing, or it inserts the file record and goes on
\* to insert the events one by one.
UploadStart(user, tenantId, file) ==
    LET refusal == UploadRefusal(user, tenantId, file)
        parsedFile == parseCSVFile(file.columns, file.data)
        fileId == Len(uploaded_files) + 1
        mapping == detectEventMapping(parsedFile.columns, parsedFile.schema)
    IN  /\ IF refusal # <<>>
           THEN /\ lastCall' = [op |-> "uploadCSV", step |-> "start", user |-> user,
                                tenantId |-> tenantId, file |-> file,
                                returned |-> TRUE, success |-> FALSE]
                /\ UNCHANGED <<uploaded_files, calls>>
           ELSE /\ uploaded_files' = Append(uploaded_files,
                                            NewFileRecord(tenantId, user, file))
                /\ calls' = calls \cup
                     {[op |-> "uploadCSV", user |-> user, tenantId |-> tenantId,
                       file |-> file, fileId |-> fileId,
                       events |-> BuildEvents(tenantId, fileId, parsedFile, mapping, now),
                       next |-> 1, rowCount |-> parsedFile.rowCount,
                       schema |-> parsedFile.schema]}
                /\ lastCall' = [op |-> "uploadCSV", step |-> "start", user |-> user,
                                tenantId |-> tenantId, file |-> file,
                                returned |-> FALSE, success |-> FALSE]
        /\ UNCHANGED <<analytics_events, aggregated_metrics, anomaly_results, now>>

\* The INSERT of one event can be refused by the store: event_timestamp is
\* NOT NULL.
InsertRefused(e) == e.event_timestamp = None

\* An insert that writes the event at the row's own position in the table
\* instead of adding a row to it.
UploadInsertEventInPlace(c) ==
    /\ c.op = "uploadCSV"
    /\ c.next <= Len(c.events)
    /\ ~InsertRefused(c.events[c.next])
    /\ analytics_events' =
          IF c.next <= Len(analytics_events)
          THEN [analytics_events EXCEPT ![c.next] = c.events[c.next]]
          ELSE Append(analytics_events, c.events[c.next])
    /\ calls' = (calls \ {c}) \cup {[c EXCEPT !.next = @ + 1]}
    /\ lastCall' = [op |-> "uploadCSV", step |-> "insert", user |-> c.user,
                    tenantId |-> c.tenantId, file |-> c.file,
                    returned |-> FALSE, success |-> FALSE]
    /\ UNCHANGED <<uploaded_files, aggregated_metrics, anomaly_results, now>>

\* insertAnalyticsEvents: the next INSERT of the loop.
UploadInsertEvent(c) ==
    /\ c.op = "uploadCSV"
    /\ c.next <= Len(c.events)
    /\ ~InsertRefused(c.events[c.next])
    /\ analytics_events' = Append(analytics_events, c.events[c.next])
    /\ calls' = (calls \ {c}) \cup {[c EXCEPT !.next = @ + 1]}
    /\ lastCall' = [op |-> "uploadCSV", step |-> "insert", user |-> c.user,
                    tenantId |-> c.tenantId, file |-> c.file,
                    returned |-> FALSE, success |-> FALSE]
    /\ UNCHANGED <<uploaded_files, aggregated_metrics, anomaly_results, now>>

\* A failure that takes back the events the call had inserted.
UploadStoreErrorRollback(c) ==
    /\ c.op = "uploadCSV"
    /\ calls' = calls \ {c}
    /\ analytics_events' =
          SelectSeq(analytics_events, LAMBDA e : e.file_id # c.fileId)
    /\ lastCall' = [op |-> "uploadCSV", step |-> "error", user |-> c.user,
                    tenantId |-> c.tenantId, file |-> c.file,
                    returned |-> TRUE, success |-> FALSE]
    /\ UNCHANGED <<uploaded_files, aggregated_metrics, anomaly_results, now>>

\* A statement of the action throws (the store refuses it or is
\* unavailable): the catch block returns the failure; nothing is undone.
UploadStoreError(c) ==
    /\ c.op = "uploadCSV"
    /\ calls' = calls \ {c}
    /\ lastCall' = [op |-> "uploadCSV", step |-> "error", user |-> c.user,
                    tenantId |-> c.tenantId, file |-> c.file,
                    returned |-> TRUE, success |-> FALSE]
    /\ UNCHANGED <<uploaded_files, analytics_events, aggregated_metrics,
                   anomaly_results, now>>

\* updateFileStatus(fileId, 'completed', rowCount, schema)
updateFileStatus(files, fileId, status, rowCount, schemaInferred) ==
    [id \in DOMAIN files |->
        IF id = fileId
        THEN [files[id] EXCEPT
                 !.upload_status = status,
                 !.row_count = IF rowCount # 0 THEN rowCount ELSE @,
                 !.schema_inferred = Some(schemaInferred),
                 !.error_message = None]
        ELSE files[id]]

\* A status update that does not wait for the INSERTs of the call.
UploadCompleteEarly(c) ==
    /\ c.op = "uploadCSV"
    /\ uploaded_files' = updateFileStatus(uploaded_files, c.fileId, "completed",
                                          c.rowCount, c.schema)
    /\ calls' = calls \ {c}
    /\ lastCall' = [op |-> "uploadCSV", step |-> "complete", user |-> c.user,
                    tenantId |-> c.tenantId, file |-> c.file,
                    returned |-> TRUE, success |-> TRUE]
    /\ UNCHANGED <<analytics_events, aggregated_metrics, anomaly_results, now>>

\* After the last INSERT: updateFileStatus and the success return.
UploadComplete(c) ==
    /\ c.op = "uploadCSV"
    /\ c.next > Len(c.events)
    /\ uploaded_files' = updateFileStatus(uploaded_files, c.fileId, "completed",
                                          c.rowCount, c.schema)
    /\ calls' = calls \ {c}
    /\ lastCall' = [op |-> "uploadCSV", step |-> "complete", user |-> c.user,
                    tenantId |-> c.tenantId, file |-> c.file,
                    returned |-> TRUE, success |-> TRUE]
    /\ UNCHANGED <<analytics_events, aggregated_metrics, anomaly_results, now>>

-----------------------------------------------------------------------------
(* SpecUpload: uploads by any user into any tenant, running concurrently *)

MaxFiles == 2

CsvFile(columns, data) ==
    [name |-> "events.csv", csvName |-> TRUE, size |-> 1024,
     columns |-> columns, data |-> data]

GoodFile ==
    CsvFile(<<S_timestamp, S_event_type, S_value>>,
            << Row3("2024-01-15", "signup", "42"), Row3("2024-01-16", "signup", "7") >>)

OneBadRowFile ==
    CsvFile(<<S_timestamp, S_event_type, S_value>>,
            << Row3("2024-01-15", "signup", "42"), Row3("abc", "signup", "7") >>)

NoValueColumnFile ==
    CsvFile(<<S_timestamp, S_event_type>>,
            << (S_timestamp :> "2024-01-15") @@ (S_event_type :> "signup") >>)

EmptyFile == CsvFile(<<S_timestamp, S_event_type, S_value>>, <<>>)

TextFile == [GoodFile EXCEPT !.name = "events.txt", !.csvName = FALSE]

HugeFile == [GoodFile EXCEPT !.size = MAX_FILE_SIZE + 1]

UploadFiles == {GoodFile, OneBadRowFile, NoValueColumnFile, EmptyFile, TextFile, HugeFile}

InitUpload ==
    /\ parsed = <<>>
    /\ outcome = NotReturned
    /\ StoresIdle

NextUpload ==
    \/ \E user \in Users \cup {NoSession}, tenantId \in Tenants, file \in UploadFiles :
          /\ Len(uploaded_files) < MaxFiles
          /\ UploadStart(user, tenantId, file)
          /\ UNCHANGED <<parsed, outcome>>
    \/ \E c \in calls : UploadInsertEvent(c) /\ UNCHANGED <<parsed, outcome>>
    \/ \E c \in calls : UploadStoreError(c) /\ UNCHANGED <<parsed, outcome>>
    \/ \E c \in calls : UploadComplete(c) /\ UNCHANGED <<parsed, outcome>>

SpecUpload == InitUpload /\ [][NextUpload]_vars

\* A statement of the call that works on the file record fileId: its next
\* INSERT, its status update, or the throw that ends it in the catch block.
UploadStep(fileId) ==
    \E c \in calls :
        /\ c.fileId = fileId
        /\ \/ UploadInsertEvent(c)
           \/ UploadStoreError(c)
           \/ UploadComplete(c)
        /\ UNCHANGED <<parsed, outcome>>

\* The runtime runs every started call of the action to its return: a call
\* that has a statement left to execute executes it.
SpecUploadLive ==
    InitUpload /\ [][NextUpload]_vars /\ \A fileId \in 1..MaxFiles : WF_vars(UploadStep(fileId))

\* The file record exists and its status is 'completed' or 'failed'.
Settled(fileId) ==
    /\ fileId \in DOMAIN uploaded_files
    /\ uploaded_files[fileId].upload_status \in {"completed", "failed"}

\* C27: every file record that uploadCSVAction created eventually leaves
\* 'processing' for 'completed' or 'failed', also when an INSERT of an event
\* or the status update fails after the record was created.
C27_ProcessingEnds ==
    \A fileId \in 1..MaxFiles :
        (fileId \in DOMAIN uploaded_files) ~> Settled(fileId)

\* The step is the first step of an uploadCSVAction call on a file that
\* validateCSVData finds invalid.
InvalidUploadStep ==
    /\ lastCall'.op = "uploadCSV"
    /\ lastCall'.step = "start"
    /\ ~validateCSVData(lastCall'.file.data, lastCall'.file.columns).valid

\* C2: an upload whose file validateCSVData finds invalid returns
\* success = false and leaves uploaded_files and analytics_events as they
\* were, with nothing of the call left to run.
C2_InvalidUploadWritesNothing ==
    [][InvalidUploadStep =>
          /\ lastCall'.returned /\ ~lastCall'.success
          /\ uploaded_files' = uploaded_files
          /\ analytics_events' = analytics_events
          /\ calls' = calls]_vars

\* An owner's upload of a file with one valid and one invalid row has just
\* been refused, while an earlier upload's records are in the stores.
C2_Witness ==
    /\ lastCall.op = "uploadCSV"
    /\ lastCall.step = "start"
    /\ lastCall.file = OneBadRowFile
    /\ lastCall.user = "alice" /\ lastCall.tenantId = "t1"
    /\ lastCall.returned /\ ~lastCall.success
    /\ Len(validateCSVData(lastCall.file.data, lastCall.file.columns).validRows) = 1
    /\ Len(uploaded_files) = 1
    /\ Len(analytics_events) = 2

\* The stored events of one file, in the order of their insertion.
EventsOfFile(events, fileId) == SelectSeq(events, LAMBDA e : e.file_id = fileId)

\* The step ends the call c: nothing of it is left to run.
Ends(c) == \A d \in calls' : d.fileId # c.fileId

\* The uploads that have returned success.
CompletedFiles(files) ==
    {f \in DOMAIN files : files[f].upload_status = "completed"}

\* C14: when an upload completes while other uploads of the same tenant
\* run or have completed, the store holds for its file exactly the events
\* built from its rows, one per row in row order and under its own file id,
\* the file record is 'completed', and every completed file of the tenant
\* still has exactly one stored event per row; no stored event belongs to
\* an unknown file.
C14_ConcurrentUploadsKeepAllEvents ==
    [][\A c \in calls :
          (lastCall'.step = "complete" /\ Ends(c))
          => /\ EventsOfFile(analytics_events', c.fileId) = c.events
             /\ Len(c.events) = c.rowCount
             /\ uploaded_files'[c.fileId].upload_status = "completed"
             /\ \A f \in CompletedFiles(uploaded_files') :
                   uploaded_files'[f].tenant_id = c.tenantId
                   => /\ Len(EventsOfFile(analytics_events', f))
                            = uploaded_files'[f].row_count
                      /\ \A i \in DOMAIN EventsOfFile(analytics_events', f) :
                            EventsOfFile(analytics_events', f)[i].tenant_id
                               = c.tenantId
             /\ \A i \in DOMAIN analytics_events' :
                   analytics_events'[i].file_id \in DOMAIN uploaded_files']_vars

\* Two uploads of two-row files into one tenant have both completed, and
\* their INSERTs alternated.
C14_Witness ==
    /\ Len(uploaded_files) = 2
    /\ CompletedFiles(uploaded_files) = {1, 2}
    /\ uploaded_files[1].tenant_id = uploaded_files[2].tenant_id
    /\ Len(analytics_events) = 4
    /\ [i \in 1..4 |-> analytics_events[i].file_id] = <<1, 2, 1, 2>>

\* C19: when the action fails in the store after k - 1 events of the file
\* were inserted, the step removes nothing, the k - 1 events stay as they
\* were inserted, the call returns success = false to its caller, and no
\* event of a file is inserted once its call has ended.
C19_StoreFailureKeepsInsertedEvents ==
    [][/\ \A c \in calls :
             (lastCall'.step = "error" /\ Ends(c))
             => /\ analytics_events' = analytics_events
                /\ EventsOfFile(analytics_events', c.fileId)
                      = SubSeq(c.events, 1, c.next - 1)
                /\ lastCall'.returned /\ ~lastCall'.success
       /\ \A f \in DOMAIN uploaded_files :
             (\A c \in calls : c.fileId # f)
             => EventsOfFile(analytics_events', f)
                   = EventsOfFile(analytics_events, f)]_vars

\* The second INSERT of a two-row file has failed: the first event is
\* stored and the call has returned.
C19_Witness ==
    /\ lastCall.op = "uploadCSV" /\ lastCall.step = "error"
    /\ lastCall.file = GoodFile
    /\ Len(uploaded_files) = 1
    /\ calls = {}
    /\ Len(analytics_events) = 1
    /\ analytics_events[1].file_id = 1

\* The file records that the step sets to 'completed'.
NewlyCompleted ==
    CompletedFiles(uploaded_files') \ CompletedFiles(uploaded_files)

\* C30: in every state a 'completed' file record has a row_count equal to
\* the number of stored events carrying its file id, and every stored event
\* belongs to a file record that exists; a step that sets a record to
\* 'completed' is taken by the call of that file after its last INSERT,
\* with every event of the call stored, and sets row_count to the number of
\* parsed rows of the file; a completed record is never written again.
C30_CompletedCountsMatch ==
    /\ [](/\ \A f \in CompletedFiles(uploaded_files) :
                uploaded_files[f].row_count = Len(EventsOfFile(analytics_events, f))
          /\ \A i \in DOMAIN analytics_events :
                analytics_events[i].file_id \in DOMAIN uploaded_files)
    /\ [][/\ \A f \in NewlyCompleted :
                \E c \in calls :
                    /\ c.fileId = f
                    /\ c.next > Len(c.events)
                    /\ EventsOfFile(analytics_events, f) = c.events
                    /\ analytics_events' = analytics_events
                    /\ uploaded_files'[f].row_count = Len(c.file.data)
          /\ \A f \in CompletedFiles(uploaded_files) :
                uploaded_files'[f] = uploaded_files[f]]_vars

\* A two-row file is 'completed' with row_count 2 and its two events
\* stored, while a second upload has stored one of its events.
C30_Witness ==
    /\ Len(uploaded_files) = 2
    /\ \E f, g \in DOMAIN uploaded_files :
          /\ uploaded_files[f].upload_status = "completed"
          /\ uploaded_files[f].row_count = 2
          /\ Len(EventsOfFile(analytics_events, f)) = 2
          /\ uploaded_files[g].upload_status = "processing"
          /\ \E c \in calls : c.fileId = g /\ c.next = 2
          /\ Len(EventsOfFile(analytics_events, g)) = 1

-----------------------------------------------------------------------------
(* SpecIngest: uploads of one-row files with several headers and cells *)

MaxIngested == 1

IngestHeaders ==
    {<<S_timestamp, S_event_type, S_value>>, <<S_created_at, S_action, S_count>>}

IngestRow(header, ts, et, v) == (header[1] :> ts) @@ (header[2] :> et) @@ (header[3] :> v)

IngestFiles ==
    {CsvFile(header, <<IngestRow(header, ts, et, v)>>) :
        header \in IngestHeaders, ts \in {"2024-01-15", "42", "abc"},
        et \in {"signup", "42", ""}, v \in {"42", "1.5", "", "abc"}}

InitIngest ==
    /\ parsed = <<>>
    /\ outcome = NotReturned
    /\ StoresIdle

NextIngest ==
    \/ \E file \in IngestFiles :
          /\ Len(uploaded_files) < MaxIngested
          /\ UploadStart("alice", "t1", file)
          /\ UNCHANGED <<parsed, outcome>>
    \/ \E c \in calls : UploadInsertEvent(c) /\ UNCHANGED <<parsed, outcome>>
    \/ \E c \in calls : UploadStoreError(c) /\ UNCHANGED <<parsed, outcome>>
    \/ \E c \in calls : UploadComplete(c) /\ UNCHANGED <<parsed, outcome>>

SpecIngest == InitIngest /\ [][NextIngest]_vars

\* result.data of validateCSVData for the row of a stored event: the cells of
\* the columns that the alias search selects in the file's header.
ValidatedOf(e) ==
    LET columns == uploaded_files[e.file_id].columns
    IN  ValidatedPayload(
            [timestamp |-> e.raw_data[FindAlias(columns, 1, timestampAliases)],
             event_type |-> e.raw_data[FindAlias(columns, 1, eventTypeAliases)],
             value |-> e.raw_data[FindAlias(columns, 1, valueAliases)]])

\* C28: every stored event of an upload that passed validation carries the
\* validated payload of its row: its event_type is the validated event type,
\* its event_timestamp the date of the validated timestamp, its
\* metric_value the validated number.
C28_StoredEqualsValidated ==
    \A i \in DOMAIN analytics_events :
        \A e \in {analytics_events[i]} :
            \A validated \in {ValidatedOf(e)} :
                /\ e.event_type = validated.event_type
                /\ e.event_timestamp = Some(DateOf(validated.timestamp))
                /\ e.metric_value = Some(validated.value)

-----------------------------------------------------------------------------
(* Anomaly detection: src/lib/analytics/anomaly-detection.ts *)

\* DEFAULT_CONFIG, with ANOMALY_DETECTION_SENSITIVITY unset
DEFAULT_CONFIG ==
    [sensitivityLevel |-> Num(3), minDataPoints |-> 10, stddevThreshold |-> Rat(5, 2)]

\* { ...DEFAULT_CONFIG, ...config }: the fields of a partial config win
FullConfig(config) == config @@ DEFAULT_CONFIG

RECURSIVE InsertSorted(_, _)
InsertSorted(sorted, x) ==
    IF sorted = <<>> THEN <<x>>
    ELSE IF RLess(x, Head(sorted)) THEN <<x>> \o sorted
    ELSE <<Head(sorted)>> \o InsertSorted(Tail(sorted), x)

\* [...values].sort((a, b) => a - b)
RECURSIVE SortNumbers(_)
SortNumbers(values) ==
    IF values = <<>> THEN <<>>
    ELSE InsertSorted(SortNumbers(SubSeq(values, 1, Len(values) - 1)), values[Len(values)])

Floor(x) == x.n \div x.d

\* values.reduce((sum, val) => sum + val, 0); the values are finite, so a
\* sum that has become Infinity or NaN stays what it is
RECURSIVE ReduceSum(_, _, _)
ReduceSum(values, i, sum) ==
    IF ~IsFinite(sum) \/ i > Len(values) THEN sum
    ELSE ReduceSum(values, i + 1, FAdd(sum, values[i]))

\* values.reduce((sum, val) => sum + Math.pow(val - mean, 2), 0)
RECURSIVE ReduceSquares(_, _, _, _)
ReduceSquares(values, mean, i, sum) ==
    IF ~IsFinite(sum) \/ i > Len(values) THEN sum
    ELSE ReduceSquares(values, mean, i + 1,
                       FAdd(sum, FMul(FSub(values[i], mean), FSub(values[i], mean))))

calculateStatistics(values) ==
    IF Len(values) = 0
    THEN [mean |-> Num(0), stddev |-> Num(0), median |-> Num(0),
          q1 |-> Num(0), q3 |-> Num(0), iqr |-> Num(0)]
    ELSE LET sorted == SortNumbers(values)
             n == Len(sorted)
             mean == FDiv(ReduceSum(values, 1, Num(0)), Num(n))
             variance == FDiv(ReduceSquares(values, mean, 1, Num(0)), Num(n))
             q1 == sorted[Floor(FMul(Num(n), Rat(1, 4))) + 1]
             q3 == sorted[Floor(FMul(Num(n), Rat(3, 4))) + 1]
         IN  [mean |-> mean,
              stddev |-> FSqrt(variance),
              median |-> IF n % 2 = 0
                         THEN FDiv(FAdd(sorted[n \div 2], sorted[n \div 2 + 1]), Num(2))
                         ELSE sorted[n \div 2 + 1],
              q1 |-> q1, q3 |-> q3, iqr |-> FSub(q3, q1)]

getSeverity(deviationPercentage, sensitivityLevel) ==
    LET adjustedThreshold == FDiv(Num(100), sensitivityLevel)
    IN  IF RGeq(deviationPercentage, FMul(adjustedThreshold, Num(3))) THEN "critical"
        ELSE IF RGeq(deviationPercentage, FMul(adjustedThreshold, Num(2))) THEN "high"
        ELSE IF RGeq(deviationPercentage, adjustedThreshold) THEN "medium"
        ELSE "low"

Finding(point, anomalyType, severity, expectedValue, deviationPercentage) ==
    [dataPoint |-> point, anomalyType |-> anomalyType, severity |-> severity,
     expectedValue |-> expectedValue, deviationPercentage |-> deviationPercentage]

\* value > upperBound
AboveUpperBound(value, upperBound) == RGreater(value, upperBound)

\* A round that flags a drop below any lower bound, positive or not.
OutlierAtAnyLower(point, stats, upperBound, lowerBound, config) ==
    IF AboveUpperBound(point.value, upperBound)
    THEN LET deviationPercentage ==
                 FMul(FDiv(FSub(point.value, stats.mean), stats.mean), Num(100))
         IN  <<Finding(point, "spike",
                       getSeverity(deviationPercentage, config.sensitivityLevel),
                       stats.mean, RAbs(deviationPercentage))>>
    ELSE IF RLess(point.value, lowerBound)
    THEN LET deviationPercentage ==
                 FMul(FDiv(FSub(stats.mean, point.value), stats.mean), Num(100))
         IN  <<Finding(point, "drop",
                       getSeverity(deviationPercentage, config.sensitivityLevel),
                       stats.mean, RAbs(deviationPercentage))>>
    ELSE <<>>

\* One round of the loop of lines 79-106: the finding for a point, if any.
OutlierAt(point, stats, upperBound, lowerBound, config) ==
    IF AboveUpperBound(point.value, upperBound)
    THEN LET deviationPercentage ==
                 FMul(FDiv(FSub(point.value, stats.mean), stats.mean), Num(100))
         IN  <<Finding(point, "spike",
                       getSeverity(deviationPercentage, config.sensitivityLevel),
                       stats.mean, RAbs(deviationPercentage))>>
    ELSE IF RLess(point.value, lowerBound) /\ RGreater(lowerBound, Num(0))
    THEN LET deviationPercentage ==
                 FMul(FDiv(FSub(stats.mean, point.value), stats.mean), Num(100))
         IN  <<Finding(point, "drop",
                       getSeverity(deviationPercentage, config.sensitivityLevel),
                       stats.mean, RAbs(deviationPercentage))>>
    ELSE <<>>

RECURSIVE OutlierLoop(_, _, _, _, _, _)
OutlierLoop(data, i, stats, upperBound, lowerBound, config) ==
    IF i > Len(data) THEN <<>>
    ELSE OutlierAt(data[i], stats, upperBound, lowerBound, config)
            \o OutlierLoop(data, i + 1, stats, upperBound, lowerBound, config)

detectOutliers(data, config) ==
    IF Len(data) < config.minDataPoints THEN <<>>
    ELSE LET stats == calculateStatistics([i \in DOMAIN data |-> data[i].value])
         IN  IF stats.stddev = Num(0) THEN <<>>
             ELSE LET spread == FMul(config.stddevThreshold, stats.stddev)
                  IN  OutlierLoop(data, 1, stats, FAdd(stats.mean, spread),
                                  FSub(stats.mean, spread), config)

\* One round of the loop of lines 121-146 (i counts from 1: i >= 3).
TrendAt(data, i, config) ==
    LET current == data[i].value
        avgPrev == FDiv(FAdd(data[i - 1].value, data[i - 2].value), Num(2))
        changePercentage == FMul(FDiv(FSub(current, avgPrev), avgPrev), Num(100))
        threshold == FDiv(Num(50), config.sensitivityLevel)
    IN  IF avgPrev = Num(0) THEN <<>>
        ELSE IF RGreater(RAbs(changePercentage), threshold)
        THEN <<Finding(data[i],
                       IF RGreater(changePercentage, Num(0)) THEN "spike" ELSE "drop",
                       getSeverity(RAbs(changePercentage), config.sensitivityLevel),
                       avgPrev, RAbs(changePercentage))>>
        ELSE <<>>

RECURSIVE TrendLoop(_, _, _)
TrendLoop(data, i, config) ==
    IF i > Len(data) THEN <<>>
    ELSE TrendAt(data, i, config) \o TrendLoop(data, i + 1, config)

\* A trend pass with the length check of the outlier pass.
detectTrendAnomaliesShortGuard(data, config) ==
    IF Len(data) < config.minDataPoints THEN <<>>
    ELSE TrendLoop(data, 3, config)

detectTrendAnomalies(data, config) ==
    IF Len(data) < config.minDataPoints + 2 THEN <<>>
    ELSE TrendLoop(data, 3, config)

\* A merge that keeps every finding.
KeepAllFindings(allAnomalies) == allAnomalies

\* The Map of timestamp to finding (lines 168-170): a key keeps the position
\* of its first entry and the value of its last.
TimestampOf(allAnomalies, i) == allAnomalies[i].dataPoint.timestamp

LastWithTimestamp(allAnomalies, i) ==
    CHOOSE j \in DOMAIN allAnomalies :
        /\ TimestampOf(allAnomalies, j) = TimestampOf(allAnomalies, i)
        /\ \A k \in DOMAIN allAnomalies :
              TimestampOf(allAnomalies, k) = TimestampOf(allAnomalies, i) => k <= j

RECURSIVE MapValues(_, _)
MapValues(allAnomalies, i) ==
    IF i > Len(allAnomalies) THEN <<>>
    ELSE (IF \A j \in 1..(i - 1) :
                TimestampOf(allAnomalies, j) # TimestampOf(allAnomalies, i)
          THEN <<allAnomalies[LastWithTimestamp(allAnomalies, i)]>>
          ELSE <<>>)
            \o MapValues(allAnomalies, i + 1)

UniqueByTimestamp(allAnomalies) == MapValues(allAnomalies, 1)

\* uniqueAnomalies of detectAnomalies (lines 163-170)
UniqueAnomalies(data, fullConfig) ==
    UniqueByTimestamp(detectOutliers(data, fullConfig)
                         \o detectTrendAnomalies(data, fullConfig))

\* A value as a NUMERIC(precision, scale) column keeps it: rounded half away
\* from zero at scale decimals (scaleUnit = 10^scale).
Numeric(x, scaleUnit) ==
    IF ~IsFinite(x) THEN x
    ELSE LET m == Abs(x.n) * scaleUnit
         IN  Rat(Sign(x.n) * ((2 * m + x.d) \div (2 * x.d)), scaleUnit)

\* The row that insertAnomalyResult writes for a finding: the ten columns of
\* the INSERT, the others at their defaults.
AnomalyRecord(tenantId, eventType, anomaly, fullConfig, t) ==
    [tenant_id |-> tenantId,
     event_type |-> eventType,
     detected_at |-> anomaly.dataPoint.timestamp,
     anomaly_type |-> anomaly.anomalyType,
     severity |-> anomaly.severity,
     metric_value |-> Numeric(anomaly.dataPoint.value, 10000),
     expected_value |-> Numeric(anomaly.expectedValue, 10000),
     deviation_percentage |-> Numeric(anomaly.deviationPercentage, 100),
     threshold_used |-> Numeric(fullConfig.stddevThreshold, 10000),
     metadata |-> [count |-> anomaly.dataPoint.count,
                   detection_method |-> "statistical",
                   sensitivity_level |-> fullConfig.sensitivityLevel],
     acknowledged |-> FALSE,
     acknowledged_by |-> None,
     acknowledged_at |-> None,
     created_at |-> t]

\* The store refuses an infinite value in a NUMERIC(p, s) column, and a
\* deviation_percentage of 10^8 or more in NUMERIC(10, 2).
AnomalyInsertRefused(record) ==
    \/ \E x \in {record.metric_value, record.expected_value,
                  record.deviation_percentage, record.threshold_used} :
          ~IsFinite(x) /\ x # NaN
    \/ /\ IsFinite(record.deviation_percentage)
       /\ Abs(record.deviation_percentage.n) \div record.deviation_percentage.d
              >= 100000000

NoUser == "library"

\* What every observed step of a detection run records.
DetectStep(c, step, returned, success) ==
    [op |-> "detectAnomalies", step |-> step, user |-> c.user,
     tenantId |-> c.tenantId, eventType |-> c.eventType, data |-> c.data,
     config |-> c.config, outlierAnomalies |-> c.outlierAnomalies,
     trendAnomalies |-> c.trendAnomalies, rows |-> c.rows,
     returned |-> returned, success |-> success]

\* The least call id that no call in flight uses.
FreshCallId ==
    CHOOSE k \in 1..(Cardinality(calls) + 1) :
        \A c \in calls : "id" \in DOMAIN c => c.id # k

\* A run whose length checks all pass: the passes see minDataPoints = 0.
DetectCallUnguarded(user, tenantId, eventType, data, config, id) ==
    LET lenient == [FullConfig(config) EXCEPT !.minDataPoints = 0]
    IN  [op |-> "detectAnomalies", id |-> id, user |-> user,
         tenantId |-> tenantId, eventType |-> eventType, data |-> data,
         config |-> config,
         outlierAnomalies |-> detectOutliers(data, lenient),
         trendAnomalies |-> detectTrendAnomalies(data, lenient),
         pending |-> UniqueAnomalies(data, lenient),
         rows |-> <<>>]

\* The run of detectAnomalies as it stands at its first await (lines
\* 157-170): its two passes and the unique findings left to insert.
DetectCall(user, tenantId, eventType, data, config, id) ==
    LET fullConfig == FullConfig(config)
        enough == Len(data) >= fullConfig.minDataPoints
    IN  [op |-> "detectAnomalies", id |-> id, user |-> user,
         tenantId |-> tenantId, eventType |-> eventType, data |-> data,
         config |-> config,
         outlierAnomalies |-> IF enough THEN detectOutliers(data, fullConfig) ELSE <<>>,
         trendAnomalies |-> IF enough THEN detectTrendAnomalies(data, fullConfig)
                            ELSE <<>>,
         pending |-> IF enough THEN UniqueAnomalies(data, fullConfig) ELSE <<>>,
         rows |-> <<>>]

\* detectAnomalies up to its first await: a series below minDataPoints, or
\* one without findings, returns at once.
DetectAnomaliesStart(user, tenantId, eventType, data, config) ==
    /\ \E c \in {DetectCall(user, tenantId, eventType, data, config, FreshCallId)} :
          /\ lastCall' = DetectStep(c, "start", c.pending = <<>>, c.pending = <<>>)
          /\ calls' = IF c.pending = <<>> THEN calls ELSE calls \cup {c}
    /\ UNCHANGED <<uploaded_files, analytics_events, aggregated_metrics,
                   anomaly_results, now>>

\* await insertAnomalyResult(...) for the next unique finding (lines 172-192)
DetectInsert(c) ==
    /\ c.op = "detectAnomalies"
    /\ c.pending # <<>>
    /\ LET record == AnomalyRecord(c.tenantId, c.eventType, Head(c.pending),
                                   FullConfig(c.config), now)
           after == [c EXCEPT !.pending = Tail(@),
                              !.rows = Append(@, Len(anomaly_results) + 1)]
       IN  /\ ~AnomalyInsertRefused(record)
           /\ anomaly_results' = Append(anomaly_results, record)
           /\ calls' = (calls \ {c}) \cup {after}
           /\ lastCall' = DetectStep(after, "insert", FALSE, FALSE)
    /\ UNCHANGED <<uploaded_files, analytics_events, aggregated_metrics, now>>

\* The INSERT is refused: the run ends with the exception, keeping the rows
\* it has inserted (detectAnomaliesAction returns success: false).
DetectStoreError(c) ==
    /\ c.op = "detectAnomalies"
    /\ c.pending # <<>>
    /\ AnomalyInsertRefused(AnomalyRecord(c.tenantId, c.eventType, Head(c.pending),
                                          FullConfig(c.config), now))
    /\ calls' = calls \ {c}
    /\ lastCall' = DetectStep(c, "error", TRUE, FALSE)
    /\ UNCHANGED <<uploaded_files, analytics_events, aggregated_metrics,
                   anomaly_results, now>>

\* The loop is over: detectAnomalies resolves.
DetectReturn(c) ==
    /\ c.op = "detectAnomalies"
    /\ c.pending = <<>>
    /\ calls' = calls \ {c}
    /\ lastCall' = DetectStep(c, "return", TRUE, TRUE)
    /\ UNCHANGED <<uploaded_files, analytics_events, aggregated_metrics,
                   anomaly_results, now>>

-----------------------------------------------------------------------------
(* detectAnomalies on a given series: repeated and overlapping runs *)

MaxPoints == 3
MaxAnomalies == 4
MaxCalls == 1

SeriesValues == {Num(-1), Num(1), Num(27)}

\* Points as aggregateMetrics returns them: one per period, ascending.
SeriesOf(values) ==
    [i \in DOMAIN values |-> [timestamp |-> Num(i - 1), value |-> values[i], count |-> 1]]

DetectConfigs ==
    {<<>>, [minDataPoints |-> 1, stddevThreshold |-> Rat(1, 4)],
     [minDataPoints |-> MaxPoints, stddevThreshold |-> Rat(1, 4)]}

InitDetect ==
    /\ \E values \in SeqsUpTo(SeriesValues, MaxPoints), config \in DetectConfigs :
          parsed = [tenantId |-> "t1", eventType |-> "signup",
                    data |-> SeriesOf(values), config |-> config]
    /\ outcome = NotReturned
    /\ StoresIdle

NextDetect ==
    \/ /\ Len(anomaly_results) < MaxAnomalies
       /\ Cardinality(calls) < MaxCalls
       /\ DetectAnomaliesStart(NoUser, parsed.tenantId, parsed.eventType,
                               parsed.data, parsed.config)
       /\ UNCHANGED <<parsed, outcome>>
    \/ \E c \in calls : DetectInsert(c) /\ UNCHANGED <<parsed, outcome>>
    \/ \E c \in calls : DetectStoreError(c) /\ UNCHANGED <<parsed, outcome>>
    \/ \E c \in calls : DetectReturn(c) /\ UNCHANGED <<parsed, outcome>>

SpecDetect == InitDetect /\ [][NextDetect]_vars

\* The detection runs that can be observed: those in flight and the one that
\* took the last step.
RunsObserved ==
    {c \in calls : c.op = "detectAnomalies"}
        \cup (IF lastCall.op = "detectAnomalies" THEN {lastCall} ELSE {})

FlaggedAt(findings, timestamp) ==
    \E i \in DOMAIN findings : findings[i].dataPoint.timestamp = timestamp

FindingAt(findings, timestamp) ==
    findings[CHOOSE i \in DOMAIN findings : findings[i].dataPoint.timestamp = timestamp]

\* The average of the two points that precede the point of a timestamp.
AverageOfTwoBefore(data, timestamp) ==
    LET i == CHOOSE k \in DOMAIN data : data[k].timestamp = timestamp
    IN  FDiv(FAdd(data[i - 1].value, data[i - 2].value), Num(2))

\* C6: the rows one detectAnomalies run has inserted have pairwise distinct
\* detected_at, and a row whose timestamp both the outlier pass and the trend
\* pass flagged is the record of the trend finding: its expected_value is
\* the average of the two preceding points.
C6_OnePerTimestampTrendWins ==
    \A r \in RunsObserved :
        /\ \A i, j \in DOMAIN r.rows :
              i # j => anomaly_results[r.rows[i]].detected_at
                          # anomaly_results[r.rows[j]].detected_at
        /\ \A i \in DOMAIN r.rows :
              LET record == anomaly_results[r.rows[i]]
              IN  (/\ FlaggedAt(r.outlierAnomalies, record.detected_at)
                   /\ FlaggedAt(r.trendAnomalies, record.detected_at))
                  => /\ record = AnomalyRecord(r.tenantId, r.eventType,
                                       FindingAt(r.trendAnomalies, record.detected_at),
                                       FullConfig(r.config), record.created_at)
                     /\ record.expected_value
                           = Numeric(AverageOfTwoBefore(r.data, record.detected_at), 10000)

\* A run has returned after inserting a row for a timestamp that both passes
\* flagged with different expected values.
C6_Witness ==
    /\ lastCall.op = "detectAnomalies"
    /\ lastCall.step = "return"
    /\ \E i \in DOMAIN lastCall.rows :
          LET at == anomaly_results[lastCall.rows[i]].detected_at
          IN  /\ FlaggedAt(lastCall.outlierAnomalies, at)
              /\ FlaggedAt(lastCall.trendAnomalies, at)
              /\ FindingAt(lastCall.outlierAnomalies, at).expectedValue
                    # FindingAt(lastCall.trendAnomalies, at).expectedValue

\* The anomaly store after one run of detectAnomalies on the given series
\* from an empty store.
StoreAfterOneRun ==
    LET fullConfig == FullConfig(parsed.config)
        unique == IF Len(parsed.data) >= fullConfig.minDataPoints
                  THEN UniqueAnomalies(parsed.data, fullConfig) ELSE <<>>
    IN  [i \in DOMAIN unique |->
            AnomalyRecord(parsed.tenantId, parsed.eventType, unique[i], fullConfig, 0)]

\* C7: once every run of detectAnomalies for the same tenant, event type,
\* series and config has returned, the anomaly store is what one run leaves:
\* a repeated run adds no record.
C7_DetectIdempotent ==
    (/\ calls = {}
     /\ lastCall.op = "detectAnomalies"
     /\ lastCall.returned
     /\ lastCall.success)
    => anomaly_results = StoreAfterOneRun

IsFlat(data) == \A i, j \in DOMAIN data : data[i].value = data[j].value

\* C10: the outlier pass of a run on a series whose values are all equal
\* yields no finding.
C10_FlatSeriesNoOutlier ==
    (lastCall.op = "detectAnomalies" /\ IsFlat(lastCall.data))
    => lastCall.outlierAnomalies = <<>>

TooShort(data, config) == Len(data) < FullConfig(config).minDataPoints

\* C11: for a series whose length is below minDataPoints, whatever its
\* values, detectAnomalies inserts no anomaly record: no run on it has a
\* finding to insert or a row inserted, and the store stays empty.
C11_ShortSeriesInsertsNothing ==
    TooShort(parsed.data, parsed.config)
    => /\ anomaly_results = <<>>
       /\ \A r \in RunsObserved : r.rows = <<>>
       /\ \A c \in calls : c.pending = <<>>

\* A run has returned on a series one point short of minDataPoints whose
\* values would give findings were the length checks absent.
C11_Witness ==
    /\ lastCall.op = "detectAnomalies"
    /\ lastCall.returned
    /\ Len(lastCall.data) + 1 = FullConfig(lastCall.config).minDataPoints
    /\ ~IsFlat(lastCall.data)
    /\ UniqueAnomalies(lastCall.data,
                       [FullConfig(lastCall.config) EXCEPT !.minDataPoints = 0]) # <<>>
    /\ anomaly_results = <<>>

\* C12: every stored anomaly record, of either pass, has the severity that
\* the shared mapping gives for the record's deviation_percentage and the
\* run's sensitivityLevel (critical from 3 x adjustedThreshold, high from
\* 2 x, medium from 1 x, else low), for series of any mean.
C12_SeverityFromDeviation ==
    \A i \in DOMAIN anomaly_results :
        anomaly_results[i].severity =
            getSeverity(anomaly_results[i].deviation_percentage,
                        anomaly_results[i].metadata.sensitivity_level)

\* The statistics of a series and the bounds of its outlier pass (lines
\* 69-77).
SeriesStats(data) == calculateStatistics([i \in DOMAIN data |-> data[i].value])

UpperBoundOf(stats, fullConfig) ==
    FAdd(stats.mean, FMul(fullConfig.stddevThreshold, stats.stddev))

LowerBoundOf(stats, fullConfig) ==
    FSub(stats.mean, FMul(fullConfig.stddevThreshold, stats.stddev))

\* The findings of a pass for the point at index i that have the given type.
FlagsAt(findings, data, i, anomalyType) ==
    {k \in DOMAIN findings :
        /\ findings[k].dataPoint = data[i]
        /\ findings[k].anomalyType = anomalyType}

\* A run has just computed its passes.
RunStarted ==
    /\ lastCall.op = "detectAnomalies"
    /\ lastCall.step = "start"

\* C22: in every run whose outlier pass computes its bounds (the series has
\* minDataPoints points and its stddev is not zero), a point is flagged as
\* spike iff its value is above upper, as drop iff its value is below lower
\* and lower is positive, and no point is flagged twice.
C22_OutlierBounds ==
    (RunStarted /\ Len(lastCall.data) >= FullConfig(lastCall.config).minDataPoints)
    => \A stats \in {SeriesStats(lastCall.data)} :
          stats.stddev # Num(0)
          => \A upper \in {UpperBoundOf(stats, FullConfig(lastCall.config))},
                lower \in {LowerBoundOf(stats, FullConfig(lastCall.config))} :
                \A i \in DOMAIN lastCall.data :
                   /\ (FlagsAt(lastCall.outlierAnomalies, lastCall.data, i, "spike") # {})
                         <=> RGreater(lastCall.data[i].value, upper)
                   /\ (FlagsAt(lastCall.outlierAnomalies, lastCall.data, i, "drop") # {})
                         <=> (RLess(lastCall.data[i].value, lower)
                              /\ RGreater(lower, Num(0)))
                   /\ Cardinality(
                          FlagsAt(lastCall.outlierAnomalies, lastCall.data, i, "spike")
                          \cup FlagsAt(lastCall.outlierAnomalies, lastCall.data, i, "drop"))
                         <= 1

\* A run has started whose series has a point below a lower bound that is
\* not positive, which the pass did not flag, and a point it flagged as
\* spike.
C22_Witness ==
    /\ RunStarted
    /\ Len(lastCall.data) >= FullConfig(lastCall.config).minDataPoints
    /\ \E stats \in {SeriesStats(lastCall.data)} :
          /\ stats.stddev # Num(0)
          /\ \E lower \in {LowerBoundOf(stats, FullConfig(lastCall.config))} :
                /\ ~RGreater(lower, Num(0))
                /\ \E i \in DOMAIN lastCall.data :
                      /\ RLess(lastCall.data[i].value, lower)
                      /\ \A k \in DOMAIN lastCall.outlierAnomalies :
                            lastCall.outlierAnomalies[k].dataPoint # lastCall.data[i]
    /\ \E k \in DOMAIN lastCall.outlierAnomalies :
          lastCall.outlierAnomalies[k].anomalyType = "spike"

\* avgPrev and changePercentage of the point at index i >= 3 (lines 122-130).
AvgPrevAt(data, i) == FDiv(FAdd(data[i - 1].value, data[i - 2].value), Num(2))

ChangeAt(data, i) ==
    FMul(FDiv(FSub(data[i].value, AvgPrevAt(data, i)), AvgPrevAt(data, i)), Num(100))

\* C23: the trend pass of a run flags the point at index i (counted from 1)
\* iff the series has minDataPoints + 2 points, i >= 3, avgPrev is not zero
\* and |changePercentage| > 50 / sensitivityLevel; it flags it once, as
\* spike for a positive change and as drop otherwise, with expectedValue =
\* avgPrev. The first two points are never flagged.
C23_TrendFlags ==
    RunStarted =>
        \A fullConfig \in {FullConfig(lastCall.config)} :
            \A i \in DOMAIN lastCall.data :
                LET flags == {k \in DOMAIN lastCall.trendAnomalies :
                                lastCall.trendAnomalies[k].dataPoint = lastCall.data[i]}
                IN  /\ (flags # {})
                          <=> /\ Len(lastCall.data) >= fullConfig.minDataPoints + 2
                              /\ i >= 3
                              /\ AvgPrevAt(lastCall.data, i) # Num(0)
                              /\ RGreater(RAbs(ChangeAt(lastCall.data, i)),
                                          FDiv(Num(50), fullConfig.sensitivityLevel))
                    /\ Cardinality(flags) <= 1
                    /\ \A k \in flags :
                          /\ lastCall.trendAnomalies[k].expectedValue
                                = AvgPrevAt(lastCall.data, i)
                          /\ lastCall.trendAnomalies[k].anomalyType
                                = IF RGreater(ChangeAt(lastCall.data, i), Num(0))
                                  THEN "spike" ELSE "drop"

\* A run has started on a series of minDataPoints + 2 points whose third
\* point the trend pass flagged as a drop.
C23_Witness ==
    /\ RunStarted
    /\ Len(lastCall.data) = FullConfig(lastCall.config).minDataPoints + 2
    /\ \E k \in DOMAIN lastCall.trendAnomalies :
          /\ lastCall.trendAnomalies[k].dataPoint = lastCall.data[3]
          /\ lastCall.trendAnomalies[k].anomalyType = "drop"

\* C29: every stored record of type spike has metric_value above its
\* expected_value, and every stored record of type drop has metric_value
\* below it.
C29_TypeMatchesDirection ==
    \A i \in DOMAIN anomaly_results :
        /\ anomaly_results[i].anomaly_type = "spike"
              => RGreater(anomaly_results[i].metric_value,
                          anomaly_results[i].expected_value)
        /\ anomaly_results[i].anomaly_type = "drop"
              => RLess(anomaly_results[i].metric_value,
                       anomaly_results[i].expected_value)

-----------------------------------------------------------------------------
(* SpecSpike: detectAnomalies on a flat series with one high point *)

\* Twelve points, all 100 but the one at the given position, which is 500.
SpikeSeries(position) ==
    SeriesOf([i \in 1..12 |-> IF i = position THEN Num(500) ELSE Num(100)])

\* The default config, left to the defaults or spelled out by the caller.
SpikeConfigs == {<<>>, DEFAULT_CONFIG}

InitSpike ==
    /\ \E position \in 1..12, config \in SpikeConfigs :
          parsed = [tenantId |-> "t1", eventType |-> "signup",
                    data |-> SpikeSeries(position), config |-> config]
    /\ outcome = NotReturned
    /\ StoresIdle

NextSpike ==
    \/ /\ Len(anomaly_results) < MaxAnomalies
       /\ Cardinality(calls) < MaxCalls
       /\ DetectAnomaliesStart(NoUser, parsed.tenantId, parsed.eventType,
                               parsed.data, parsed.config)
       /\ UNCHANGED <<parsed, outcome>>
    \/ \E c \in calls : DetectInsert(c) /\ UNCHANGED <<parsed, outcome>>
    \/ \E c \in calls : DetectReturn(c) /\ UNCHANGED <<parsed, outcome>>

SpecSpike == InitSpike /\ [][NextSpike]_vars

\* The mean of the series, as calculateStatistics computes it.
SeriesMean(data) == calculateStatistics([i \in DOMAIN data |-> data[i].value]).mean

\* C20: every record stored for the point of value 500 is a spike of
\* severity critical whose expected value is the mean of the series and
\* whose deviation is |500 - mean| / mean x 100; a run that has returned
\* has stored such a record.
C20_SpikeAgainstSeriesMean ==
    LET mean == SeriesMean(parsed.data)
    IN  /\ \A i \in DOMAIN anomaly_results :
              anomaly_results[i].metric_value = Num(500)
              => /\ anomaly_results[i].anomaly_type = "spike"
                 /\ anomaly_results[i].severity = "critical"
                 /\ anomaly_results[i].expected_value = Numeric(mean, 10000)
                 /\ anomaly_results[i].deviation_percentage =
                       Numeric(FMul(FDiv(RAbs(FSub(Num(500), mean)), mean),
                                    Num(100)), 100)
        /\ (lastCall.op = "detectAnomalies" /\ lastCall.step = "return")
              => \E i \in DOMAIN anomaly_results :
                    anomaly_results[i].metric_value = Num(500)

-----------------------------------------------------------------------------
(* Time-series aggregation: the queries of aggregateMetrics.  Times are     *)
(* hours since 2024-01-01T00:00Z, a Monday; the session time zone is UTC.   *)

IsLeapYear(y) == (y % 4 = 0 /\ y % 100 # 0) \/ y % 400 = 0

DaysInMonth(y, m) ==
    IF m = 2 THEN (IF IsLeapYear(y) THEN 29 ELSE 28)
    ELSE IF m \in {4, 6, 9, 11} THEN 30 ELSE 31

DaysInYear(y) == IF IsLeapYear(y) THEN 366 ELSE 365

\* The year that holds day (days since 2024-01-01) and its first day, found
\* by walking from the year y that starts at day first.
RECURSIVE YearOf(_, _, _)
YearOf(day, y, first) ==
    IF day < first THEN YearOf(day, y - 1, first - DaysInYear(y - 1))
    ELSE IF day >= first + DaysInYear(y) THEN YearOf(day, y + 1, first + DaysInYear(y))
    ELSE [year |-> y, first |-> first]

\* The first day of the month of year y that holds day, month m starting at
\* day first.
RECURSIVE MonthStartFrom(_, _, _, _)
MonthStartFrom(day, y, m, first) ==
    IF day >= first + DaysInMonth(y, m)
    THEN MonthStartFrom(day, y, m + 1, first + DaysInMonth(y, m))
    ELSE first

MonthStart(day) ==
    LET year == YearOf(day, 2024, 0)
    IN  MonthStartFrom(day, year.year, 1, year.first)

\* date_trunc(unit, event_timestamp)
date_trunc(unit, t) ==
    LET hour == Floor(t)
    IN  CASE unit = "hour" -> Num(hour)
          [] unit = "day" -> Num(24 * (hour \div 24))
          [] unit = "week" -> Num(168 * (hour \div 168))
          [] unit = "month" -> Num(24 * MonthStart(hour \div 24))

\* A WHERE clause whose upper end is exclusive.
EventsInRangeOpenEnd(events, tenantId, eventType, startDate, endDate) ==
    {i \in DOMAIN events :
        /\ events[i].tenant_id = tenantId
        /\ events[i].event_type = eventType
        /\ RGeq(events[i].event_timestamp[1], startDate)
        /\ RGreater(endDate, events[i].event_timestamp[1])}

\* The rows of analytics_events that the WHERE clause of the queries keeps.
EventsInRange(events, tenantId, eventType, startDate, endDate) ==
    {i \in DOMAIN events :
        /\ events[i].tenant_id = tenantId
        /\ events[i].event_type = eventType
        /\ RGeq(events[i].event_timestamp[1], startDate)
        /\ RGeq(endDate, events[i].event_timestamp[1])}

\* ORDER BY period_start ASC
RECURSIVE Ascending(_)
Ascending(S) ==
    IF S = {} THEN <<>>
    ELSE LET least == CHOOSE x \in S : \A y \in S : ~RLess(y, x)
         IN  <<least>> \o Ascending(S \ {least})

RECURSIVE ExactSum(_, _)
ExactSum(values, S) ==
    IF S = {} THEN Num(0)
    ELSE LET i == CHOOSE k \in S : TRUE
         IN  RAdd(values[i], ExactSum(values, S \ {i}))

\* AVG(metric_value): over the rows whose metric_value is not NULL, NULL
\* when there is none; in NUMERIC arithmetic, here exact.
SqlAvg(events, rows) ==
    LET valued == {i \in rows : events[i].metric_value # None}
    IN  IF valued = {} THEN None
        ELSE Some(RDiv(ExactSum([i \in DOMAIN events |->
                                    IF i \in valued THEN events[i].metric_value[1]
                                    ELSE Num(0)], valued),
                       Num(Cardinality(valued))))

\* aggregateByHour / Day / Week / Month: one row per period, ascending.
AggregateBy(unit, events, tenantId, eventType, startDate, endDate) ==
    LET rows == EventsInRange(events, tenantId, eventType, startDate, endDate)
        PeriodOf(i) == date_trunc(unit, events[i].event_timestamp[1])
        periods == Ascending({PeriodOf(i) : i \in rows})
    IN  [k \in DOMAIN periods |->
            LET group == {i \in rows : PeriodOf(i) = periods[k]}
            IN  [period_start |-> periods[k],
                 count_events |-> Cardinality(group),
                 avg_value |-> SqlAvg(events, group)]]

\* parseFloat(r.avg_value) || 0
ParseFloatOrZero(v) == IF v = None THEN Num(0) ELSE Fl(v[1])

aggregateMetrics(events, tenantId, eventType, startDate, endDate, period) ==
    LET results ==
            AggregateBy(IF period \in {"hour", "day", "week", "month"} THEN period
                        ELSE "day",
                        events, tenantId, eventType, startDate, endDate)
    IN  [k \in DOMAIN results |->
            [timestamp |-> results[k].period_start,
             value |-> ParseFloatOrZero(results[k].avg_value),
             count |-> results[k].count_events]]

-----------------------------------------------------------------------------
(* The anomaly server actions: detectAnomaliesAction, acknowledgeAnomalyAction *)

\* A detection call that ended before detectAnomalies was reached.
RefusedDetectCall(user, tenantId, eventType) ==
    [op |-> "detectAnomalies", id |-> 0, user |-> user, tenantId |-> tenantId,
     eventType |-> eventType, data |-> <<>>, config |-> <<>>,
     outlierAnomalies |-> <<>>, trendAnomalies |-> <<>>, pending |-> <<>>,
     rows |-> <<>>]

\* detectAnomaliesAction up to the first insert: requireTenantAuth throws for
\* a caller who is no member of the tenant (the catch returns success: false),
\* a member's call aggregates the tenant's events and runs detectAnomalies
\* with the default config.
detectAnomaliesAction(user, tenantId, eventType, startDate, endDate, period) ==
    IF getTenantAuthContext(user, tenantId) = <<>>
    THEN /\ lastCall' = DetectStep(RefusedDetectCall(user, tenantId, eventType),
                                   "refused", TRUE, FALSE)
         /\ UNCHANGED <<uploaded_files, analytics_events, aggregated_metrics,
                        anomaly_results, calls, now>>
    ELSE DetectAnomaliesStart(user, tenantId, eventType,
                              aggregateMetrics(analytics_events, tenantId, eventType,
                                               startDate, endDate, period),
                              <<>>)

\* An UPDATE that flips the flag of the row.
acknowledgeAnomalyToggle(results, anomalyId, userId, t) ==
    [i \in DOMAIN results |->
        IF i = anomalyId
        THEN [results[i] EXCEPT !.acknowledged = ~@,
                                !.acknowledged_by = Some(userId),
                                !.acknowledged_at = Some(t)]
        ELSE results[i]]

\* An UPDATE that leaves a row alone once it is acknowledged.
acknowledgeAnomalyOnce(results, anomalyId, userId, t) ==
    [i \in DOMAIN results |->
        IF i = anomalyId /\ ~results[i].acknowledged
        THEN [results[i] EXCEPT !.acknowledged = TRUE,
                                !.acknowledged_by = Some(userId),
                                !.acknowledged_at = Some(t)]
        ELSE results[i]]

\* UPDATE anomaly_results SET acknowledged = true, acknowledged_by = userId,
\* acknowledged_at = NOW() WHERE id = anomalyId
acknowledgeAnomaly(results, anomalyId, userId, t) ==
    [i \in DOMAIN results |->
        IF i = anomalyId
        THEN [results[i] EXCEPT !.acknowledged = TRUE,
                                !.acknowledged_by = Some(userId),
                                !.acknowledged_at = Some(t)]
        ELSE results[i]]

\* An anomalyId that is no UUID: the store rejects the statement.
MalformedId == 0

\* Whether acknowledgeAnomalyAction lets the caller through to the UPDATE.
MayAcknowledge(user, tenantId) ==
    /\ getTenantAuthContext(user, tenantId) # <<>>
    /\ canAcknowledgeAnomalies(getTenantAuthContext(user, tenantId)[1].role)

\* acknowledgeAnomalyAction: one statement, at the store's next clock value.
acknowledgeAnomalyAction(user, tenantId, anomalyId) ==
    /\ \E stored \in {MayAcknowledge(user, tenantId) /\ anomalyId # MalformedId} :
          /\ anomaly_results' =
                IF stored
                THEN acknowledgeAnomaly(anomaly_results, anomalyId, user, now + 1)
                ELSE anomaly_results
          /\ now' = IF MayAcknowledge(user, tenantId) THEN now + 1 ELSE now
          /\ lastCall' =
                [op |-> "acknowledgeAnomaly", step |-> "return", user |-> user,
                 tenantId |-> tenantId, anomalyId |-> anomalyId,
                 rows |-> IF stored /\ anomalyId \in DOMAIN anomaly_results
                          THEN <<anomalyId>> ELSE <<>>,
                 before |-> IF anomalyId \in DOMAIN anomaly_results
                            THEN Some(anomaly_results[anomalyId]) ELSE None,
                 returned |-> TRUE, success |-> stored]
    /\ UNCHANGED <<uploaded_files, analytics_events, aggregated_metrics, calls>>

-----------------------------------------------------------------------------
(* Detection and acknowledgement by the members of two tenants *)

MaxAcks == 2
MaxStored == 1

\* An event whose file row is gone (file_id NULL).
NoFile == 0

SeedEvent(tenantId, eventType, hour, value) ==
    [tenant_id |-> tenantId, file_id |-> NoFile, event_type |-> eventType,
     event_timestamp |-> Some(Num(hour)), metric_value |-> Some(Num(value)),
     dimensions |-> <<>>, raw_data |-> <<>>]

\* Twelve hourly events of tenant t2 and two of tenant t1.
SeedValues(tenantId) ==
    IF tenantId = "t2" THEN <<10, -1, -1, -1, -1, -1, -1, -1, -1, -1, -1, 27>>
    ELSE <<1, 27>>

SeedEvents ==
    [k \in DOMAIN SeedValues("t2") |->
        SeedEvent("t2", "signup", k - 1, SeedValues("t2")[k])]
    \o [k \in DOMAIN SeedValues("t1") |->
           SeedEvent("t1", "signup", k - 1, SeedValues("t1")[k])]

DetectRanges ==
    {[startDate |-> Num(1), endDate |-> Num(11)],
     [startDate |-> Num(0), endDate |-> Num(10)]}

Periods == {"hour", "day"}

InitAnomaly ==
    /\ parsed = <<>>
    /\ outcome = NotReturned
    /\ uploaded_files = <<>>
    /\ analytics_events = SeedEvents
    /\ aggregated_metrics = <<>>
    /\ anomaly_results = <<>>
    /\ calls = {}
    /\ lastCall = NoCall
    /\ now = 0

\* Detection calls are taken one at a time here (SpecDetect interleaves
\* them); acknowledgements come at any point, between the inserts of a run
\* included.
NextAnomaly ==
    \/ /\ Len(anomaly_results) < MaxStored
       /\ calls = {}
       /\ \E user \in Users \cup {NoSession}, tenantId \in Tenants,
             range \in DetectRanges, period \in Periods :
             detectAnomaliesAction(user, tenantId, "signup", range.startDate,
                                   range.endDate, period)
       /\ UNCHANGED <<parsed, outcome>>
    \/ \E c \in calls : DetectInsert(c) /\ UNCHANGED <<parsed, outcome>>
    \/ \E c \in calls : DetectStoreError(c) /\ UNCHANGED <<parsed, outcome>>
    \/ \E c \in calls : DetectReturn(c) /\ UNCHANGED <<parsed, outcome>>
    \/ /\ now < MaxAcks
       /\ \E user \in Users \cup {NoSession}, tenantId \in Tenants,
             anomalyId \in 0..(Len(anomaly_results) + 1) :
             acknowledgeAnomalyAction(user, tenantId, anomalyId)
       /\ UNCHANGED <<parsed, outcome>>

SpecAnomaly == InitAnomaly /\ [][NextAnomaly]_vars

\* C1: tenant isolation for the anomaly actions. Every anomaly record that a
\* server action invoked under tenant T wrote (detectAnomaliesAction) or
\* modified (acknowledgeAnomalyAction) has tenant_id = T; in particular
\* acknowledgeAnomalyAction(T, anomalyId) never changes a record that belongs
\* to a tenant other than T.
C1_TenantIsolation ==
    lastCall.op \in {"detectAnomalies", "acknowledgeAnomaly"} =>
        \A i \in Range(lastCall.rows) :
            anomaly_results[i].tenant_id = lastCall.tenantId

\* The step is an acknowledgeAnomalyAction call that reached the UPDATE
\* (only such a step moves the store's clock) and named a stored record.
AcknowledgesStoredRecord ==
    /\ now' # now
    /\ lastCall'.op = "acknowledgeAnomaly"
    /\ lastCall'.anomalyId \in DOMAIN anomaly_results

\* C8: acknowledge is idempotent. Acknowledging a stored anomaly record, be
\* it the first time or again, by the same or by another permitted actor,
\* never errors and leaves acknowledged = TRUE with acknowledged_by and
\* acknowledged_at of this most recent acknowledge; every other field of
\* the record, and every other record, is unchanged.
C8_AcknowledgeIdempotent ==
    [][AcknowledgesStoredRecord =>
          /\ lastCall'.success
          /\ anomaly_results' =
                [anomaly_results EXCEPT ![lastCall'.anomalyId] =
                    [@ EXCEPT !.acknowledged = TRUE,
                              !.acknowledged_by = Some(lastCall'.user),
                              !.acknowledged_at = Some(now')]]]_vars

\* A record that was acknowledged before is acknowledged again by another
\* actor, and now carries the second actor and the second time.
C8_Witness ==
    /\ lastCall.op = "acknowledgeAnomaly"
    /\ lastCall.success
    /\ lastCall.before # None
    /\ lastCall.before[1].acknowledged
    /\ lastCall.before[1].acknowledged_by # Some(lastCall.user)
    /\ anomaly_results[lastCall.anomalyId].acknowledged
    /\ anomaly_results[lastCall.anomalyId].acknowledged_by = Some(lastCall.user)
    /\ anomaly_results[lastCall.anomalyId].acknowledged_at = Some(now)
    /\ lastCall.before[1].acknowledged_at # Some(now)

-----------------------------------------------------------------------------
(* Stored aggregations: computeAndStoreAggregations, insertAggregatedMetric *)

\* The rows of a group whose metric_value is not NULL: the SQL aggregates
\* other than COUNT(*) skip the others.
Valued(events, group) == {i \in group : events[i].metric_value # None}

ValuesOf(events, group) ==
    [i \in DOMAIN events |->
        IF i \in Valued(events, group) THEN events[i].metric_value[1] ELSE Num(0)]

\* SUM(metric_value)
SqlSum(events, group) ==
    IF Valued(events, group) = {} THEN None
    ELSE Some(ExactSum(ValuesOf(events, group), Valued(events, group)))

\* MIN(metric_value), MAX(metric_value)
SqlMin(events, group) ==
    LET values == {events[i].metric_value[1] : i \in Valued(events, group)}
    IN  IF values = {} THEN None
        ELSE Some(CHOOSE x \in values : \A y \in values : ~RLess(y, x))

SqlMax(events, group) ==
    LET values == {events[i].metric_value[1] : i \in Valued(events, group)}
    IN  IF values = {} THEN None
        ELSE Some(CHOOSE x \in values : \A y \in values : ~RLess(x, y))

\* STDDEV(metric_value): the sample standard deviation, NULL below two values.
SqlStddev(events, group) ==
    LET valued == Valued(events, group)
        mean == SqlAvg(events, group)[1]
        squares == [i \in DOMAIN events |->
                       IF i \in valued
                       THEN RMul(RSub(events[i].metric_value[1], mean),
                                 RSub(events[i].metric_value[1], mean))
                       ELSE Num(0)]
    IN  IF Cardinality(valued) < 2 THEN None
        ELSE Some(FSqrt(RDiv(ExactSum(squares, valued),
                             Num(Cardinality(valued) - 1))))

\* computeAggregationByHour / computeAggregationByDay: one row per period;
\* the queries have no ORDER BY, so the rows come as a set.
computeAggregationBy(unit, events, tenantId, eventType, startDate, endDate) ==
    LET rows == EventsInRange(events, tenantId, eventType, startDate, endDate)
        PeriodOf(i) == date_trunc(unit, events[i].event_timestamp[1])
    IN  {LET group == {i \in rows : PeriodOf(i) = p}
         IN  [period_start |-> p,
              period_end |-> RAdd(p, Num(IF unit = "hour" THEN 1 ELSE 24)),
              count_events |-> Cardinality(group),
              sum_value |-> SqlSum(events, group),
              avg_value |-> SqlAvg(events, group),
              min_value |-> SqlMin(events, group),
              max_value |-> SqlMax(events, group),
              stddev_value |-> SqlStddev(events, group)] :
         p \in {PeriodOf(i) : i \in rows}}

\* row.x ? parseFloat(row.x) : null, on the NUMERIC text the store returns
\* (a text is falsy only when empty, so a zero stays a number).
ParseFloatOrNull(v) == IF v = None THEN None ELSE Some(Fl(v[1]))

\* The metrics that the loop of computeAndStoreAggregations hands to
\* insertAggregatedMetric: 'hour' runs the hourly query, every other period
\* the daily one, and each metric carries the period of the call.
MetricsOf(events, tenantId, eventType, period, startDate, endDate) ==
    {[tenant_id |-> tenantId,
      event_type |-> eventType,
      aggregation_period |-> period,
      period_start |-> row.period_start,
      period_end |-> row.period_end,
      count_events |-> row.count_events,
      sum_value |-> ParseFloatOrNull(row.sum_value),
      avg_value |-> ParseFloatOrNull(row.avg_value),
      min_value |-> ParseFloatOrNull(row.min_value),
      max_value |-> ParseFloatOrNull(row.max_value),
      stddev_value |-> ParseFloatOrNull(row.stddev_value),
      dimensions |-> "{}"] :
     row \in computeAggregationBy(IF period = "hour" THEN "hour" ELSE "day",
                                  events, tenantId, eventType, startDate, endDate)}

NumericOrNull(v) == IF v = None THEN None ELSE Some(Numeric(v[1], 10000))

\* The row proposed for insertion (EXCLUDED in the ON CONFLICT clause): the
\* metric in the types of the columns, computed_at at the statement's time.
Excluded(metric, t) ==
    [tenant_id |-> metric.tenant_id,
     event_type |-> metric.event_type,
     aggregation_period |-> metric.aggregation_period,
     period_start |-> metric.period_start,
     period_end |-> metric.period_end,
     count_events |-> metric.count_events,
     sum_value |-> NumericOrNull(metric.sum_value),
     avg_value |-> NumericOrNull(metric.avg_value),
     min_value |-> NumericOrNull(metric.min_value),
     max_value |-> NumericOrNull(metric.max_value),
     stddev_value |-> NumericOrNull(metric.stddev_value),
     dimensions |-> metric.dimensions,
     computed_at |-> t]

\* UNIQUE(tenant_id, event_type, aggregation_period, period_start, dimensions)
UniqueKey(row) ==
    <<row.tenant_id, row.event_type, row.aggregation_period, row.period_start,
      row.dimensions>>

\* An INSERT without the ON CONFLICT clause on a table without the constraint.
insertAggregatedMetricPlain(store, metric, t) == Append(store, Excluded(metric, t))

\* INSERT ... ON CONFLICT (key) DO UPDATE SET the six statistics and computed_at
insertAggregatedMetric(store, metric, t) ==
    LET excluded == Excluded(metric, t)
        conflict == {i \in DOMAIN store : UniqueKey(store[i]) = UniqueKey(excluded)}
    IN  IF conflict = {} THEN Append(store, excluded)
        ELSE [i \in DOMAIN store |->
                 IF i \in conflict
                 THEN [store[i] EXCEPT !.count_events = excluded.count_events,
                                       !.sum_value = excluded.sum_value,
                                       !.avg_value = excluded.avg_value,
                                       !.min_value = excluded.min_value,
                                       !.max_value = excluded.max_value,
                                       !.stddev_value = excluded.stddev_value,
                                       !.computed_at = excluded.computed_at]
                 ELSE store[i]]

\* computeAndStoreAggregations up to its loop: the query has run and its
\* rows wait to be stored.
ComputeAndStoreStart(tenantId, eventType, period, startDate, endDate) ==
    /\ calls' = calls \cup
          {[op |-> "computeAndStoreAggregations", id |-> FreshCallId,
            tenantId |-> tenantId, eventType |-> eventType, period |-> period,
            pending |-> MetricsOf(analytics_events, tenantId, eventType, period,
                                  startDate, endDate),
            resolved |-> FALSE]}
    /\ UNCHANGED <<uploaded_files, analytics_events, aggregated_metrics,
                   anomaly_results, lastCall, now>>

\* One turn of the loop: one upsert, of whichever row the query gave next.
ComputeAndStoreUpsert(c) ==
    /\ c.op = "computeAndStoreAggregations"
    /\ \E metric \in c.pending :
          /\ aggregated_metrics' =
                insertAggregatedMetric(aggregated_metrics, metric, now + 1)
          /\ now' = now + 1
          /\ calls' = (calls \ {c}) \cup
                         {[c EXCEPT !.pending = c.pending \ {metric}]}
          /\ lastCall' =
                [op |-> "insertAggregatedMetric", id |-> c.id, metric |-> metric,
                 before |-> {row \in Range(aggregated_metrics) :
                                UniqueKey(row) = UniqueKey(Excluded(metric, now + 1))}]
    /\ UNCHANGED <<uploaded_files, analytics_events, anomaly_results>>

\* The loop is over and the call resolves; the run stays on record.
ComputeAndStoreReturn(c) ==
    /\ c.op = "computeAndStoreAggregations"
    /\ c.pending = {}
    /\ ~c.resolved
    /\ calls' = (calls \ {c}) \cup {[c EXCEPT !.resolved = TRUE]}
    /\ UNCHANGED <<uploaded_files, analytics_events, aggregated_metrics,
                   anomaly_results, lastCall, now>>

-----------------------------------------------------------------------------
(* SpecAgg: computeAndStoreAggregations runs, one upsert per step *)

MaxRuns == 2
MaxUpserts == 3

\* Tenant t1 has two events on the first day, one of them in its first
\* hour, and two on the second day, one of them without a metric value;
\* tenant t2 has one event.
AggEvents ==
    <<SeedEvent("t1", "signup", 0, 2), SeedEvent("t1", "signup", 1, 4),
      SeedEvent("t1", "signup", 24, 27),
      [SeedEvent("t1", "signup", 24, 0) EXCEPT !.metric_value = None],
      SeedEvent("t2", "signup", 0, 1)>>

AggRanges ==
    {[startDate |-> Num(0), endDate |-> Num(24)],
     [startDate |-> Num(1), endDate |-> Num(24)]}

\* 'hour' takes the first branch of the switch, 'week' the default one; their
\* rows for the first hour and the first day start at the same instant.
AggPeriods == {"hour", "week"}

InitAgg ==
    /\ parsed = <<>>
    /\ outcome = NotReturned
    /\ uploaded_files = <<>>
    /\ analytics_events = AggEvents
    /\ aggregated_metrics = <<>>
    /\ anomaly_results = <<>>
    /\ calls = {}
    /\ lastCall = NoCall
    /\ now = 0

NextAgg ==
    \/ /\ Cardinality(calls) < MaxRuns
       /\ \E period \in AggPeriods, range \in AggRanges :
             ComputeAndStoreStart("t1", "signup", period, range.startDate,
                                  range.endDate)
       /\ UNCHANGED <<parsed, outcome>>
    \/ /\ now < MaxUpserts
       /\ \E c \in calls : ComputeAndStoreUpsert(c)
       /\ UNCHANGED <<parsed, outcome>>
    \/ \E c \in calls : ComputeAndStoreReturn(c) /\ UNCHANGED <<parsed, outcome>>

SpecAgg == InitAgg /\ [][NextAgg]_vars

Statistics(row) ==
    <<row.count_events, row.sum_value, row.avg_value, row.min_value,
      row.max_value, row.stddev_value>>

OneRowPerKey(store) ==
    \A i, j \in DOMAIN store : UniqueKey(store[i]) = UniqueKey(store[j]) => i = j

\* C9: after any sequence of computeAndStoreAggregations runs, concurrent
\* runs interleaved upsert by upsert included, the metric store holds at most
\* one row per key (tenant_id, event_type, aggregation_period, period_start,
\* dimensions) and that row carries the statistics of the last upsert written
\* for the key. Step by step, from the empty store: an upsert (the only step
\* that moves the store's clock) leaves one row per key, the row of its key
\* with the statistics it wrote, and the rows of the other keys as they
\* were; no other step changes the store.
C9_UpsertOverwritesInPlace ==
    [][IF now' # now
       THEN /\ lastCall'.op = "insertAggregatedMetric"
            /\ OneRowPerKey(aggregated_metrics')
            /\ \E i \in DOMAIN aggregated_metrics' :
                  /\ UniqueKey(aggregated_metrics'[i]) =
                        UniqueKey(Excluded(lastCall'.metric, now'))
                  /\ Statistics(aggregated_metrics'[i]) =
                        Statistics(Excluded(lastCall'.metric, now'))
            /\ \A i \in DOMAIN aggregated_metrics :
                  UniqueKey(aggregated_metrics[i]) #
                     UniqueKey(Excluded(lastCall'.metric, now'))
                  => /\ i \in DOMAIN aggregated_metrics'
                     /\ aggregated_metrics'[i] = aggregated_metrics[i]
       ELSE aggregated_metrics' = aggregated_metrics]_vars

\* An upsert has overwritten the row that another upsert wrote for the same
\* key with other statistics, while a second run still has rows to store.
C9_Witness ==
    /\ lastCall.op = "insertAggregatedMetric"
    /\ \E old \in lastCall.before :
          Statistics(old) # Statistics(Excluded(lastCall.metric, now))
    /\ \E i \in DOMAIN aggregated_metrics :
          /\ UniqueKey(aggregated_metrics[i]) = UniqueKey(Excluded(lastCall.metric, now))
          /\ Statistics(aggregated_metrics[i]) =
                Statistics(Excluded(lastCall.metric, now))
    /\ \E c \in calls : c.id # lastCall.id /\ c.pending # {}
    /\ Len(aggregated_metrics) >= 2

\* The instant one period after the start of a bucket.
PeriodEndOf(period, start) ==
    CASE period = "hour" -> RAdd(start, Num(1))
      [] period = "day" -> RAdd(start, Num(24))
      [] period = "week" -> RAdd(start, Num(168))
      [] period = "month" -> date_trunc("month", RAdd(start, Num(24 * 32)))

\* C16: every stored metric starts on a bucket boundary of its own
\* aggregation_period and ends one such period later.
C16_RowsSpanTheirPeriod ==
    \A i \in DOMAIN aggregated_metrics :
        /\ aggregated_metrics[i].period_start =
              date_trunc(aggregated_metrics[i].aggregation_period,
                         aggregated_metrics[i].period_start)
        /\ aggregated_metrics[i].period_end =
              PeriodEndOf(aggregated_metrics[i].aggregation_period,
                          aggregated_metrics[i].period_start)

-----------------------------------------------------------------------------
(* SpecSeries: aggregateMetrics called on a given event store *)

MaxEvents == 3
MaxQueries == 2

\* Events of two tenants and two event types, at the start of a day, one
\* hour later and at the start of the next day.
SeriesEvents ==
    {SeedEvent(who[1], who[2], hour, hour + 1) :
        who \in {<<"t1", "signup">>, <<"t2", "signup">>, <<"t1", "login">>},
        hour \in {0, 1, 24}}

SeriesRanges ==
    {[startDate |-> Num(0), endDate |-> Num(24)],
     [startDate |-> Num(1), endDate |-> Num(24)]}

InitSeries ==
    /\ \E range \in SeriesRanges, period \in {"hour", "day", "week", "month"} :
          parsed = [tenantId |-> "t1", eventType |-> "signup",
                    startDate |-> range.startDate, endDate |-> range.endDate,
                    period |-> period]
    /\ outcome = NotReturned
    /\ uploaded_files = <<>>
    /\ analytics_events \in SeqsUpTo(SeriesEvents, MaxEvents)
    /\ aggregated_metrics = <<>>
    /\ anomaly_results = <<>>
    /\ calls = {}
    /\ lastCall = [op |-> "aggregateMetrics", n |-> 0, previous |-> NotReturned]
    /\ now = 0

\* One call of aggregateMetrics; the call before it is remembered.
Aggregate ==
    /\ lastCall.n < MaxQueries
    /\ outcome' = <<aggregateMetrics(analytics_events, parsed.tenantId,
                                     parsed.eventType, parsed.startDate,
                                     parsed.endDate, parsed.period)>>
    /\ lastCall' = [op |-> "aggregateMetrics", n |-> lastCall.n + 1,
                    previous |-> outcome]
    /\ UNCHANGED <<parsed, uploaded_files, analytics_events, aggregated_metrics,
                   anomaly_results, calls, now>>

NextSeries == Aggregate

SpecSeries == InitSeries /\ [][NextSeries]_vars

\* The stored events of the tenant and event type asked for whose timestamp
\* lies in [startDate, endDate].
Asked ==
    {i \in DOMAIN analytics_events :
        /\ analytics_events[i].tenant_id = parsed.tenantId
        /\ analytics_events[i].event_type = parsed.eventType
        /\ ~RLess(analytics_events[i].event_timestamp[1], parsed.startDate)
        /\ ~RLess(parsed.endDate, analytics_events[i].event_timestamp[1])}

BucketOf(i) == date_trunc(parsed.period, analytics_events[i].event_timestamp[1])

\* C25: the sequence aggregateMetrics returns has exactly one point per
\* bucket that holds an event of the tenant and type asked for with its
\* timestamp in [startDate, endDate], in ascending order of the buckets; the
\* count of a point is the number of those events in its bucket, never 0;
\* and a second call on the unchanged store returns the same sequence.
C25_OnePointPerNonEmptyBucket ==
    outcome # NotReturned =>
        /\ {outcome[1][k].timestamp : k \in DOMAIN outcome[1]}
              = {BucketOf(i) : i \in Asked}
        /\ \A k, l \in DOMAIN outcome[1] :
              k < l => RLess(outcome[1][k].timestamp, outcome[1][l].timestamp)
        /\ \A k \in DOMAIN outcome[1] :
              /\ outcome[1][k].count
                    = Cardinality({i \in Asked : BucketOf(i) = outcome[1][k].timestamp})
              /\ outcome[1][k].count > 0
        /\ lastCall.previous # NotReturned => lastCall.previous = outcome

\* A second call has returned two points; the store also holds an event of
\* the other tenant inside the range and an event of the tenant at the very
\* end of the range.
C25_Witness ==
    /\ lastCall.op = "aggregateMetrics" /\ lastCall.n = 2
    /\ Len(outcome[1]) = 2
    /\ \E i \in DOMAIN analytics_events :
          /\ analytics_events[i].tenant_id # parsed.tenantId
          /\ RGeq(analytics_events[i].event_timestamp[1], parsed.startDate)
          /\ RGeq(parsed.endDate, analytics_events[i].event_timestamp[1])
    /\ \E i \in Asked : analytics_events[i].event_timestamp[1] = parsed.endDate

-----------------------------------------------------------------------------
(* SpecSystem: uploads, aggregation runs, detection runs and                *)
(* acknowledgements of one deployment, interleaved step by step             *)

MaxUploads == 1

OneRowFile ==
    CsvFile(<<S_timestamp, S_event_type, S_value>>,
            << Row3("2024-01-15", "signup", "42") >>)

InitSystem == InitAnomaly

InFlight(op) == {c \in calls : c.op = op}

\* The store's clock moves with every upsert and every acknowledgement; the
\* acknowledgements are counted apart from the upserts.

NextSystem ==
    \/ /\ Len(uploaded_files) < MaxUploads
       /\ \E user \in Users \cup {NoSession} :
             UploadStart(user, "t1", OneRowFile)
       /\ UNCHANGED <<parsed, outcome>>
    \/ \E c \in calls : UploadInsertEvent(c) /\ UNCHANGED <<parsed, outcome>>
    \/ \E c \in calls : UploadComplete(c) /\ UNCHANGED <<parsed, outcome>>
    \/ /\ InFlight("computeAndStoreAggregations") = {}
       /\ aggregated_metrics = <<>>
       /\ ComputeAndStoreStart("t2", "signup", "week", Num(0), Num(11))
       /\ UNCHANGED <<parsed, outcome>>
    \/ \E c \in calls : ComputeAndStoreUpsert(c) /\ UNCHANGED <<parsed, outcome>>
    \/ /\ InFlight("detectAnomalies") = {}
       /\ Len(anomaly_results) < MaxStored
       /\ detectAnomaliesAction("bob", "t2", "signup", Num(1), Num(11), "hour")
       /\ UNCHANGED <<parsed, outcome>>
    \/ \E c \in calls : DetectInsert(c) /\ UNCHANGED <<parsed, outcome>>
    \/ \E c \in calls : DetectReturn(c) /\ UNCHANGED <<parsed, outcome>>
    \/ /\ now < MaxAcks + Len(aggregated_metrics)
       /\ \E user \in Users \cup {NoSession}, tenantId \in Tenants,
             anomalyId \in DOMAIN anomaly_results :
             acknowledgeAnomalyAction(user, tenantId, anomalyId)
       /\ UNCHANGED <<parsed, outcome>>

SpecSystem == InitSystem /\ [][NextSystem]_vars

\* The user holds the OWNER or the ADMIN role in the tenant.
IsOwnerOrAdmin(user, tenantId) ==
    \E m \in TenantMembers :
        m.tenant_id = tenantId /\ m.user_id = user /\ m.role \in {"OWNER", "ADMIN"}

\* The step is a step of the named action, observed in lastCall: the steps
\* that leave lastCall alone change nothing but the calls in flight.
StepOf(op) ==
    /\ lastCall'.op = op
    /\ \/ lastCall' # lastCall
       \/ <<uploaded_files, analytics_events, aggregated_metrics, anomaly_results,
            now>>' # <<uploaded_files, analytics_events, aggregated_metrics,
                       anomaly_results, now>>

\* C13: role-based access, the role being the caller's role in the tenant
\* the action is invoked under. An uploadCSVAction call by a MEMBER of that
\* tenant, or by someone who is no member of it, inserts no file record and
\* no event and leaves nothing to run; an acknowledgeAnomalyAction call by
\* such a caller changes no anomaly record; and every step that writes a
\* file record or an event, or changes the acknowledgement of a record,
\* belongs to a call by an OWNER or ADMIN of the call's tenant.
C13_RoleBasedAccess ==
    [][/\ (StepOf("uploadCSV")
              /\ ~IsOwnerOrAdmin(lastCall'.user, lastCall'.tenantId))
          => /\ uploaded_files' = uploaded_files
             /\ analytics_events' = analytics_events
             /\ calls' = calls
             /\ ~lastCall'.success
       /\ (StepOf("acknowledgeAnomaly")
              /\ ~IsOwnerOrAdmin(lastCall'.user, lastCall'.tenantId))
          => /\ anomaly_results' = anomaly_results
             /\ ~lastCall'.success
       /\ (uploaded_files' # uploaded_files \/ analytics_events' # analytics_events)
          => /\ StepOf("uploadCSV")
             /\ IsOwnerOrAdmin(lastCall'.user, lastCall'.tenantId)
       /\ (\E i \in DOMAIN anomaly_results :
              anomaly_results'[i].acknowledged # anomaly_results[i].acknowledged)
          => /\ StepOf("acknowledgeAnomaly")
             /\ IsOwnerOrAdmin(lastCall'.user, lastCall'.tenantId)]_vars

\* A MEMBER of the call's tenant has just been refused the acknowledgement
\* of a stored record, after an upload by the owner has been stored.
C13_Witness ==
    /\ lastCall.op = "acknowledgeAnomaly"
    /\ lastCall.user = "carol" /\ lastCall.tenantId = "t1"
    /\ lastCall.anomalyId \in DOMAIN anomaly_results
    /\ ~lastCall.success
    /\ ~anomaly_results[lastCall.anomalyId].acknowledged
    /\ \E f \in DOMAIN uploaded_files :
          /\ uploaded_files[f].uploaded_by = "alice"
          /\ uploaded_files[f].tenant_id = "t1"
    /\ analytics_events # SeedEvents

\* The columns of a record that insertAnomalyResult writes.
Detected(record) ==
    [f \in DOMAIN record \ {"acknowledged", "acknowledged_by", "acknowledged_at"}
        |-> record[f]]

\* C15: across uploads, aggregation runs, detection runs and
\* acknowledgements, an anomaly record once inserted is never deleted; only
\* acknowledged, acknowledged_by and acknowledged_at of it ever change, and
\* only in a step of acknowledge; a record starts with acknowledged = FALSE,
\* and acknowledged never goes from TRUE back to FALSE.
C15_AnomalyRecordsOnlyAcknowledged ==
    [][/\ DOMAIN anomaly_results \subseteq DOMAIN anomaly_results'
       /\ \A i \in DOMAIN anomaly_results :
             /\ Detected(anomaly_results'[i]) = Detected(anomaly_results[i])
             /\ anomaly_results'[i] # anomaly_results[i]
                => StepOf("acknowledgeAnomaly")
             /\ anomaly_results[i].acknowledged => anomaly_results'[i].acknowledged
       /\ \A i \in DOMAIN anomaly_results' \ DOMAIN anomaly_results :
             /\ ~anomaly_results'[i].acknowledged
             /\ StepOf("detectAnomalies")]_vars

\* A record was acknowledged, then acknowledged again by another actor,
\* while a file and a stored aggregation sit next to it.
C15_Witness ==
    /\ lastCall.op = "acknowledgeAnomaly"
    /\ lastCall.success
    /\ lastCall.before # None
    /\ lastCall.before[1].acknowledged
    /\ lastCall.before[1].acknowledged_by # Some(lastCall.user)
    /\ anomaly_results[lastCall.anomalyId].acknowledged
    /\ uploaded_files # <<>>
    /\ aggregated_metrics # <<>>

=============================================================================
